---- MODULE Spec2Model ----
(***************************************************************************)
(* A model of the SnelDB Python client's transport/protocol core:          *)
(*   - AuthManager            (sneldb_client/auth.py)                      *)
(*   - SnelDBClient           (sneldb_client/client.py)                    *)
(*   - response normalizer    (sneldb_client/parser.py)                    *)
(*   - TcpTransport           (sneldb_client/transport/tcp.py)             *)
(*   - HttpTransport          (sneldb_client/transport/http.py)            *)
(*                                                                         *)
(* Python str values are TLA+ strings (TLC evaluates Len, SubSeq and \o on *)
(* them).  Bodies are ASCII, so a body's bytes and its decoded text are    *)
(* the same string.  An Optional[str] is a sequence of length 0 (None) or  *)
(* 1.  A call that may raise yields [k |-> "return", val |-> ...] or       *)
(* [k |-> "raise", err |-> <exception class>, msg |-> <message>].          *)
(* Where the source binds a local and then branches on it, the model       *)
(* passes the bound value to an operator holding the rest of the function  *)
(* (named after the step), so that each call is written once.              *)
(***************************************************************************)
EXTENDS Integers, Sequences, FiniteSets, TLC

VARIABLES
    \* ---- SnelDBClient over a Transport (specification Spec) ----
    kind,               \* self._transport.kind
    user_id,            \* AuthManager.user_id
    secret_key,         \* AuthManager.secret_key
    session_token,      \* AuthManager._session_token
    authenticated_user, \* AuthManager._authenticated_user
    default_headers,    \* SnelDBClient._default_headers
    has_arrow,          \* parser._HAS_ARROW
    last,               \* the last operation: its input, its transport calls, its outcome
    auth_history,       \* history: the token the last successful authenticate returned
                        \* if no clear() followed it, and whether a clear() ended a session
    \* ---- the transports over the network (specification SpecTransport) ----
    tcp,                \* a TcpTransport, its connection and the peer; see TcpInit
    http                \* an HttpTransport and its httpx client; see HttpInit

clientVars == <<kind, user_id, secret_key, session_token, authenticated_user,
                default_headers, has_arrow, last, auth_history>>
transportVars == <<tcp, http>>
vars == <<clientVars, transportVars>>

\* ---------------------------------------------------------- Python values
NONE == <<>>
Some(s) == <<s>>
\* bool(x) of an Optional[str]: None and "" are falsy
Truthy(o) == o # NONE /\ o[1] # ""

Return(v) == [k |-> "return", val |-> v]
\* an exception: its class and its message
RaiseMsg(e, m) == [k |-> "raise", err |-> e, msg |-> m]
Raise(e) == RaiseMsg(e, "")

Min(a, b) == IF a < b THEN a ELSE b

\* ------------------------------------------------------------ str methods
Whitespace == {" ", "\t", "\n", "\r"}
Digits == {"0", "1", "2", "3", "4", "5", "6", "7", "8", "9"}
\* s[i-1:j] with Python's clamping of the bounds (positions are 1-based here)
Slice(s, i, j) == SubSeq(s, IF i < 1 THEN 1 ELSE i, IF j > Len(s) THEN Len(s) ELSE j)
Char(s, i) == Slice(s, i, i)

\* s.startswith(p), s.endswith(p)
StartsWith(s, p) == Len(p) <= Len(s) /\ Slice(s, 1, Len(p)) = p
EndsWith(s, p) == Len(p) <= Len(s) /\ Slice(s, Len(s) - Len(p) + 1, Len(s)) = p

\* s.find(sub), 1-based; 0 when sub does not occur
Find(s, sub) ==
    LET hits == {i \in 1..(Len(s) - Len(sub) + 1) : Slice(s, i, i + Len(sub) - 1) = sub}
    IN IF hits = {} THEN 0 ELSE CHOOSE i \in hits : \A j \in hits : i <= j

\* sub in s
Contains(s, sub) == Find(s, sub) # 0

\* s.lstrip(chars), s.rstrip(chars), s.strip()
LStripSet(s, chars) ==
    LET keep == {i \in 1..Len(s) : Char(s, i) \notin chars}
    IN IF keep = {} THEN ""
       ELSE Slice(s, CHOOSE i \in keep : \A j \in keep : i <= j, Len(s))
RStripSet(s, chars) ==
    LET keep == {i \in 1..Len(s) : Char(s, i) \notin chars}
    IN IF keep = {} THEN ""
       ELSE Slice(s, 1, CHOOSE i \in keep : \A j \in keep : i >= j)
Strip(s) == LStripSet(RStripSet(s, Whitespace), Whitespace)

\* s.split(): the maximal runs of non-whitespace, in order
RECURSIVE SplitWs(_)
SplitWs(s) ==
    LET t == LStripSet(s, Whitespace)
        ws == {i \in 1..Len(t) : Char(t, i) \in Whitespace}
        stop == IF ws = {} THEN Len(t) + 1 ELSE CHOOSE i \in ws : \A j \in ws : i <= j
    IN IF t = "" THEN <<>>
       ELSE <<Slice(t, 1, stop - 1)>> \o SplitWs(Slice(t, stop, Len(t)))

\* c * n
RECURSIVE Repeat(_, _)
Repeat(c, n) ==
    IF n <= 0 THEN ""
    ELSE IF n = 1 THEN c
    ELSE Repeat(c, n \div 2) \o Repeat(c, n - n \div 2)

\* sep.join(parts)
RECURSIVE Join(_, _)
Join(parts, sep) ==
    IF parts = <<>> THEN ""
    ELSE IF Len(parts) = 1 THEN parts[1]
    ELSE Join(SubSeq(parts, 1, Len(parts) \div 2), sep) \o sep
         \o Join(SubSeq(parts, Len(parts) \div 2 + 1, Len(parts)), sep)

\* ------------------------------------------------------------ AuthManager
\* hmac.new(secret, message, sha256).hexdigest(): the digest as a symbolic
\* term of its key and message, distinct for distinct (key, message)
HmacSha256Hex(secret, message) == "hmac[" \o secret \o "][" \o message \o "]"

has_credentials(uid, secret) == Truthy(uid) /\ Truthy(secret)

\* mutant: the digest is keyed by a fixed key, not by the secret
compute_signature_fixed_key(secret, message) ==
    IF ~Truthy(secret) THEN Raise("AuthenticationError")
    ELSE Return(HmacSha256Hex("key", Strip(message)))

compute_signature(secret, message) ==
    IF ~Truthy(secret) THEN Raise("AuthenticationError")
    ELSE Return(HmacSha256Hex(secret[1], Strip(message)))

\* f"{prefix}{signature}:{trimmed}", or the error compute_signature raised
Signed(prefix, signature, trimmed) ==
    IF signature.k = "raise" THEN signature
    ELSE Return(prefix \o signature.val \o ":" \o trimmed)

\* mutant: the inline credentials take precedence over the cached token
FormatTcp_resigns(trimmed, uid, secret, token, auth_user) ==
    IF Truthy(uid) /\ Truthy(secret)
        THEN Signed(uid[1] \o ":", compute_signature(secret, trimmed), trimmed)
    ELSE IF Truthy(token) THEN Return(trimmed \o " TOKEN " \o token[1])
    ELSE Return(trimmed)

\* format_command for a TCP transport, after trimmed = command.strip()
FormatTcp(trimmed, uid, secret, token, auth_user) ==
    IF Truthy(token) THEN Return(trimmed \o " TOKEN " \o token[1])
    ELSE IF Truthy(auth_user)
        THEN Signed("", compute_signature(secret, trimmed), trimmed)
    ELSE IF Truthy(uid) /\ Truthy(secret)
        THEN Signed(uid[1] \o ":", compute_signature(secret, trimmed), trimmed)
    ELSE Return(trimmed)

\* mutant: the transport kind is not looked at
format_command_any_kind(command, transport_kind, uid, secret, token, auth_user) ==
    FormatTcp(Strip(command), uid, secret, token, auth_user)

format_command(command, transport_kind, uid, secret, token, auth_user) ==
    IF transport_kind # "tcp" THEN Return(command)
    ELSE FormatTcp(Strip(command), uid, secret, token, auth_user)

\* merged["X-Auth-User"] = user_id; merged["X-Auth-Signature"] = signature
WithAuthHeaders(headers, uid, signature) ==
    IF signature.k = "raise" THEN signature
    ELSE Return([h \in DOMAIN headers \cup {"X-Auth-User", "X-Auth-Signature"} |->
                    IF h = "X-Auth-User" THEN uid[1]
                    ELSE IF h = "X-Auth-Signature" THEN signature.val
                    ELSE headers[h]])

\* mutant: the auth headers replace the headers passed in
add_http_headers_drops_defaults(command, headers, uid, secret) ==
    IF ~has_credentials(uid, secret) THEN Return(headers)
    ELSE WithAuthHeaders(<<>>, uid, compute_signature(secret, command))

\* headers are functions from header names to values
add_http_headers(command, headers, uid, secret) ==
    IF ~has_credentials(uid, secret) THEN Return(headers)
    ELSE WithAuthHeaders(headers, uid, compute_signature(secret, command))

\* body[idx:].split()[0], then token.strip() or None; indexing the empty
\* list raises IndexError
FirstWord(words) ==
    IF words = <<>> THEN Raise("IndexError")
    ELSE Return(IF Strip(words[1]) = "" THEN NONE ELSE Some(Strip(words[1])))

\* _extract_token: an Optional[str]
_extract_token(body) ==
    IF Contains(body, "OK TOKEN ")
        THEN FirstWord(SplitWs(Slice(body, Find(body, "OK TOKEN ") + Len("OK TOKEN "),
                                     Len(body))))
    ELSE Return(NONE)

\* ------------------------------------------------------- more str methods
UpperLetters == "ABCDEFGHIJKLMNOPQRSTUVWXYZ"
LowerLetters == "abcdefghijklmnopqrstuvwxyz"
Letters == {Char(UpperLetters, i) : i \in 1..26} \cup {Char(LowerLetters, i) : i \in 1..26}

\* s.lower(), s.upper()
RECURSIVE Lower(_)
Lower(s) ==
    IF s = "" THEN ""
    ELSE LET c == Char(s, 1)
             i == Find(UpperLetters, c)
         IN (IF i = 0 THEN c ELSE Char(LowerLetters, i)) \o Lower(Slice(s, 2, Len(s)))
RECURSIVE Upper(_)
Upper(s) ==
    IF s = "" THEN ""
    ELSE LET c == Char(s, 1)
             i == Find(LowerLetters, c)
         IN (IF i = 0 THEN c ELSE Char(UpperLetters, i)) \o Upper(Slice(s, 2, Len(s)))

\* s.isdigit(), s.isalnum()
IsDigit(s) == s # "" /\ \A i \in 1..Len(s) : Char(s, i) \in Digits
IsAlnum(s) == s # "" /\ \A i \in 1..Len(s) : Char(s, i) \in Digits \cup Letters

\* s.replace(c, "") for a one-character c
RECURSIVE RemoveChar(_, _)
RemoveChar(s, c) ==
    IF s = "" THEN ""
    ELSE (IF Char(s, 1) = c THEN "" ELSE Char(s, 1)) \o RemoveChar(Slice(s, 2, Len(s)), c)

\* s.split(sep) for a one-character sep: at least one piece, empty pieces kept
RECURSIVE Split(_, _)
Split(s, sep) ==
    LET i == Find(s, sep)
    IN IF i = 0 THEN <<s>>
       ELSE <<Slice(s, 1, i - 1)>> \o Split(Slice(s, i + 1, Len(s)), sep)

\* s.splitlines(): breaks at "\n", "\r\n" and "\r"; no piece for a final break
RECURSIVE SplitLines(_)
SplitLines(s) ==
    LET brk == {i \in 1..Len(s) : Char(s, i) \in {"\n", "\r"}}
        i == CHOOSE b \in brk : \A j \in brk : b <= j
        skip == IF Char(s, i) = "\r" /\ i < Len(s) /\ Char(s, i + 1) = "\n" THEN 2 ELSE 1
    IN IF s = "" THEN <<>>
       ELSE IF brk = {} THEN <<s>>
       ELSE <<Slice(s, 1, i - 1)>> \o SplitLines(Slice(s, i + skip, Len(s)))

\* str(n) for n >= 0
RECURSIVE IntToStr(_)
IntToStr(n) ==
    IF n < 10 THEN Char("0123456789", n + 1)
    ELSE IntToStr(n \div 10) \o Char("0123456789", (n % 10) + 1)

\* int(s) for a string of digits
RECURSIVE StrToInt(_)
StrToInt(s) ==
    IF s = "" THEN 0
    ELSE 10 * StrToInt(Slice(s, 1, Len(s) - 1)) + (Find("0123456789", Char(s, Len(s))) - 1)

\* ------------------------------------------------- Python / JSON values
\* dict: insertion-ordered <<key, value>> pairs with distinct keys
PyDict(items) == [t |-> "dict", items |-> items]
PyList(elems) == [t |-> "list", elems |-> elems]
PyStr(s) == [t |-> "str", s |-> s]
PyInt(n) == [t |-> "int", n |-> n]
PyBool(b) == [t |-> "bool", b |-> b]
PyNone == [t |-> "null"]

\* d[key] = value on the item sequence of a dict
DictSet(items, key, value) ==
    IF \E i \in 1..Len(items) : items[i][1] = key
        THEN [i \in 1..Len(items) |-> IF items[i][1] = key THEN <<key, value>> ELSE items[i]]
    ELSE Append(items, <<key, value>>)
DictHas(d, key) == \E i \in 1..Len(d.items) : d.items[i][1] = key
\* d.get(key): None when absent
DictGet(d, key) ==
    IF DictHas(d, key)
        THEN d.items[CHOOSE i \in 1..Len(d.items) : d.items[i][1] = key][2]
    ELSE PyNone

\* str(v) of a scalar
PyToStr(v) ==
    CASE v.t = "str" -> v.s
      [] v.t = "int" -> IF v.n < 0 THEN "-" \o IntToStr(0 - v.n) ELSE IntToStr(v.n)
      [] v.t = "bool" -> IF v.b THEN "True" ELSE "False"
      [] v.t = "null" -> "None"
      [] OTHER -> "<" \o v.t \o ">"

\* ------------------------------------------------------------ json.loads
\* The subset of JSON the bodies use: objects, arrays, strings without
\* escapes, integers, true, false, null.  A parse step yields
\* [ok, v, pos]: the value and the index after it, or ok = FALSE.
JsonFail == [ok |-> FALSE]
JsonOk(v, pos) == [ok |-> TRUE, v |-> v, pos |-> pos]

SkipWs(s, i) ==
    LET rest == {j \in i..Len(s) : Char(s, j) \notin Whitespace}
    IN IF rest = {} THEN Len(s) + 1 ELSE CHOOSE j \in rest : \A k \in rest : j <= k

JsonString(s, i) ==
    LET close == {j \in (i + 1)..Len(s) : Char(s, j) = "\""}
        j == CHOOSE c \in close : \A k \in close : c <= k
    IN IF close = {} THEN JsonFail ELSE JsonOk(PyStr(Slice(s, i + 1, j - 1)), j + 1)

JsonNumber(s, i) ==
    LET neg == Char(s, i) = "-"
        first == IF neg THEN i + 1 ELSE i
        nondigit == {j \in first..Len(s) : Char(s, j) \notin Digits}
        stop == IF nondigit = {} THEN Len(s) + 1
                ELSE CHOOSE j \in nondigit : \A k \in nondigit : j <= k
        n == StrToInt(Slice(s, first, stop - 1))
    IN IF stop = first THEN JsonFail
       ELSE JsonOk(PyInt(IF neg THEN 0 - n ELSE n), stop)

RECURSIVE JsonValue(_, _), JsonAt(_, _), JsonMembers(_, _, _), MemberAfterKey(_, _, _),
          MemberAfterValue(_, _, _, _), JsonElements(_, _, _), ElementAfterValue(_, _, _)
\* the members of an object after "{" or ",": "key": value, then "," or "}"
JsonMembers(s, i, acc) ==
    IF Char(s, i) # "\"" THEN JsonFail ELSE MemberAfterKey(s, JsonString(s, i), acc)

MemberAfterKey(s, key, acc) ==
    IF ~key.ok THEN JsonFail
    ELSE IF Char(s, SkipWs(s, key.pos)) # ":" THEN JsonFail
    ELSE MemberAfterValue(s, key.v.s, JsonValue(s, SkipWs(s, key.pos) + 1), acc)

MemberAfterValue(s, key, val, acc) ==
    IF ~val.ok THEN JsonFail
    ELSE IF Char(s, SkipWs(s, val.pos)) = ","
        THEN JsonMembers(s, SkipWs(s, SkipWs(s, val.pos) + 1), DictSet(acc, key, val.v))
    ELSE IF Char(s, SkipWs(s, val.pos)) = "}"
        THEN JsonOk(PyDict(DictSet(acc, key, val.v)), SkipWs(s, val.pos) + 1)
    ELSE JsonFail

\* the elements of an array after "[" or ",": value, then "," or "]"
JsonElements(s, i, acc) == ElementAfterValue(s, JsonValue(s, i), acc)

ElementAfterValue(s, val, acc) ==
    IF ~val.ok THEN JsonFail
    ELSE IF Char(s, SkipWs(s, val.pos)) = ","
        THEN JsonElements(s, SkipWs(s, val.pos) + 1, Append(acc, val.v))
    ELSE IF Char(s, SkipWs(s, val.pos)) = "]"
        THEN JsonOk(PyList(Append(acc, val.v)), SkipWs(s, val.pos) + 1)
    ELSE JsonFail

\* the value that starts at the non-blank position i
JsonAt(s, i) ==
    IF i > Len(s) THEN JsonFail
    ELSE IF Char(s, i) = "{"
        THEN IF Char(s, SkipWs(s, i + 1)) = "}"
                 THEN JsonOk(PyDict(<<>>), SkipWs(s, i + 1) + 1)
             ELSE JsonMembers(s, SkipWs(s, i + 1), <<>>)
    ELSE IF Char(s, i) = "["
        THEN IF Char(s, SkipWs(s, i + 1)) = "]"
                 THEN JsonOk(PyList(<<>>), SkipWs(s, i + 1) + 1)
             ELSE JsonElements(s, i + 1, <<>>)
    ELSE IF Char(s, i) = "\"" THEN JsonString(s, i)
    ELSE IF Char(s, i) \in Digits \cup {"-"} THEN JsonNumber(s, i)
    ELSE IF Slice(s, i, i + 3) = "true" THEN JsonOk(PyBool(TRUE), i + 4)
    ELSE IF Slice(s, i, i + 4) = "false" THEN JsonOk(PyBool(FALSE), i + 5)
    ELSE IF Slice(s, i, i + 3) = "null" THEN JsonOk(PyNone, i + 4)
    ELSE JsonFail

JsonValue(s, i) == JsonAt(s, SkipWs(s, i))

\* the value, or JSONDecodeError (also for data after the value)
JsonTop(s, r) ==
    IF r.ok /\ SkipWs(s, r.pos) > Len(s) THEN Return(r.v) ELSE Raise("JSONDecodeError")

\* the interpreter's default recursion limit (sys.getrecursionlimit())
RecursionLimit == 1000

\* the text opens with as many "[" as the recursion limit allows frames
OpensTooDeep(s) ==
    Len(s) >= RecursionLimit /\ \A j \in 1..RecursionLimit : Char(s, j) = "["

\* the decoder recurses once per nested array before it can meet a syntax
\* error, so a text that opens too deep raises RecursionError, which is
\* not a JSONDecodeError
json_loads(s) ==
    IF OpensTooDeep(s) THEN Raise("RecursionError")
    ELSE JsonTop(s, JsonValue(s, 1))

\* ------------------------------------------------- response normalizer
TransportResponse(status, body, headers) ==
    [status |-> status, body |-> body, headers |-> headers]

\* response.headers.get("content-type", "")
HeaderGet(headers, name) == IF name \in DOMAIN headers THEN headers[name] ELSE ""

_looks_like_arrow(content_type, body) ==
    \/ Contains(content_type, "arrow")
    \/ Len(body) > 4 /\ Slice(body, 1, 2) = "LP"

is_arrow_response(response) ==
    _looks_like_arrow(Lower(HeaderGet(response.headers, "content-type")), response.body)

\* pyarrow reading one IPC stream: the stream ArrowStream holds one batch of
\* two columns; any other byte string is not a readable stream
ArrowStream == "ARROW1:id=1,2;name=x,y"
ArrowTable == <<<<"id", <<PyInt(1), PyInt(2)>>>>, <<"name", <<PyStr("x"), PyStr("y")>>>>>>
pa_open_stream(data) ==
    IF data = ArrowStream THEN Return(<<ArrowTable>>) ELSE Raise("ArrowInvalid")

\* the rows of one batch: batch.to_pydict() zipped by row index
ArrowBatchRows(table) ==
    [idx \in 1..(IF table = <<>> THEN 0 ELSE Len(table[1][2])) |->
        PyDict([c \in 1..Len(table) |-> <<table[c][1], table[c][2][idx]>>])]

RECURSIVE ArrowAllRows(_)
ArrowAllRows(batches) ==
    IF batches = <<>> THEN <<>>
    ELSE ArrowBatchRows(Head(batches)) \o ArrowAllRows(Tail(batches))

\* parse_arrow_to_records after the reader was opened
ArrowRecords(reader) ==
    IF reader.k = "raise" THEN Raise("ParseError") ELSE Return(ArrowAllRows(reader.val))

parse_arrow_to_records(data, arrow_installed) ==
    IF ~arrow_installed THEN Raise("ParseError") ELSE ArrowRecords(pa_open_stream(data))

drop_status_prefix(lines) ==
    IF lines = <<>> THEN lines
    ELSE IF \/ StartsWith(Upper(Head(lines)), "OK")
            \/ StartsWith(Head(lines), "200 ")
            \/ IsDigit(Slice(Head(lines), 1, 3))
        THEN Tail(lines)
    ELSE lines

looks_like_json_object(text) == StartsWith(Strip(text), "{") /\ EndsWith(Strip(text), "}")

looks_like_json_array(text) == StartsWith(Strip(text), "[") /\ EndsWith(Strip(text), "]")

\* [part.strip() for part in parts]
RECURSIVE StripAll(_)
StripAll(parts) ==
    IF parts = <<>> THEN <<>> ELSE <<Strip(Head(parts))>> \o StripAll(Tail(parts))

\* [line.strip() for line in lines if line.strip()]
RECURSIVE NonBlankStripped(_)
NonBlankStripped(lines) ==
    IF lines = <<>> THEN <<>>
    ELSE (IF Strip(Head(lines)) = "" THEN <<>> ELSE <<Strip(Head(lines))>>)
         \o NonBlankStripped(Tail(lines))

\* record[header.lower()] = value for the first n (header, value) pairs
RECURSIVE ZipRecord(_, _, _)
ZipRecord(headers, values, n) ==
    IF n = 0 THEN <<>>
    ELSE DictSet(ZipRecord(headers, values, n - 1), Lower(headers[n]), PyStr(values[n]))

\* the record of one data line of a pipe table, values = its stripped parts
PipeRecord(line, values, headers, data_start) ==
    IF data_start = 1 /\ Len(values) = Len(headers)
        THEN PyDict(ZipRecord(headers, values, Len(headers)))
    ELSE PyDict(<<<<"raw", PyStr(line)>>,
                  <<"parts", PyList([i \in 1..Len(values) |-> PyStr(values[i])])>>>>)

\* the loop of parse_pipe_delimited over lines[data_start:]
PipeRecords(lines, headers, data_start) ==
    [i \in 1..(Len(lines) - data_start) |->
        PipeRecord(lines[data_start + i], StripAll(Split(lines[data_start + i], "|")),
                   headers, data_start)]

\* parse_pipe_delimited after the header tokens were split off lines[0]
PipeTable(lines, headers) ==
    PipeRecords(lines, headers,
                IF \A i \in 1..Len(headers) : IsAlnum(RemoveChar(headers[i], "_"))
                    THEN 1 ELSE 0)

parse_pipe_delimited(lines) == PipeTable(lines, StripAll(Split(lines[1], "|")))

\* _row_from_schema: record[str(schema[idx].get("name"))] = value, or
\* record["col_<idx>"] past the schema; .get on a column descriptor that is
\* not an object raises AttributeError
RECURSIVE RowFromSchema(_, _, _)
RowFromSchema(values, schema, n) ==
    IF n = 0 THEN <<>>
    ELSE DictSet(RowFromSchema(values, schema, n - 1),
                 IF n <= Len(schema) THEN PyToStr(DictGet(schema[n], "name"))
                 ELSE "col_" \o IntToStr(n - 1),
                 values[n])

_row_from_schema(values, schema) ==
    IF \E i \in 1..Min(Len(values), Len(schema)) : schema[i].t # "dict"
        THEN Raise("AttributeError")
    ELSE Return(PyDict(RowFromSchema(values, schema, Len(values))))

\* records.append(record) when the row gave one
AppendRecord(records, record) ==
    IF record.k = "raise" THEN record ELSE Return(Append(records, record.val))

\* mutant: a row array is wrapped whether or not a schema is known
RowRecords_ignores_schema(row, schema, records) ==
    IF row.t = "list" THEN Return(Append(records, PyDict(<<<<"values", row>>>>)))
    ELSE Return(records)

\* one row array of a batch or row frame; schema is None or the columns of
\* the last schema frame; a row that is not a list adds nothing
RowRecords(row, schema, records) ==
    IF row.t = "list" /\ schema # NONE /\ schema[1] # <<>>
        THEN AppendRecord(records, _row_from_schema(row.elems, schema[1]))
    ELSE IF row.t = "list"
        THEN Return(Append(records, PyDict(<<<<"values", row>>>>)))
    ELSE Return(records)

\* for row in rows: each row on its own, in order
RECURSIVE BatchRows(_, _, _), BatchRowsAfter(_, _, _)
BatchRows(rows, schema, records) ==
    IF rows = <<>> THEN Return(records)
    ELSE BatchRowsAfter(Tail(rows), schema, RowRecords(Head(rows), schema, records))

BatchRowsAfter(rows, schema, out) ==
    IF out.k = "raise" THEN out ELSE BatchRows(rows, schema, out.val)

\* the loop of parse_streaming_json_response over the remaining lines
RECURSIVE StreamingFrames(_, _, _), FrameLoaded(_, _, _, _), Frame(_, _, _, _, _),
          FramesAfter(_, _, _)
StreamingFrames(lines, schema, records) ==
    IF lines = <<>> THEN Return(records)
    ELSE IF Head(lines) = "" THEN StreamingFrames(Tail(lines), schema, records)
    ELSE FrameLoaded(json_loads(Head(lines)), Tail(lines), schema, records)

\* frame = json.loads(line) is not caught; frame.get needs an object
FrameLoaded(loaded, rest, schema, records) ==
    IF loaded.k = "raise" THEN loaded
    ELSE IF loaded.val.t # "dict" THEN Raise("AttributeError")
    ELSE Frame(loaded.val, DictGet(loaded.val, "type"), rest, schema, records)

FramesAfter(rest, schema, out) ==
    IF out.k = "raise" THEN out ELSE StreamingFrames(rest, schema, out.val)

Frame(frame, frame_type, rest, schema, records) ==
    IF frame_type = PyStr("schema")
        THEN StreamingFrames(rest,
                             IF DictGet(frame, "columns").t = "list"
                                 THEN Some(DictGet(frame, "columns").elems)
                             ELSE schema,
                             records)
    ELSE IF frame_type = PyStr("batch")
        THEN IF DictGet(frame, "rows").t = "list"
                 THEN FramesAfter(rest, schema,
                                  BatchRows(DictGet(frame, "rows").elems, schema, records))
             ELSE StreamingFrames(rest, schema, records)
    ELSE IF frame_type = PyStr("row")
        THEN IF DictGet(frame, "values").t = "dict"
                 THEN StreamingFrames(rest, schema, Append(records, DictGet(frame, "values")))
             ELSE FramesAfter(rest, schema,
                              RowRecords(DictGet(frame, "values"), schema, records))
    ELSE IF frame_type = PyStr("end") THEN Return(records)
    ELSE StreamingFrames(rest, schema, records)

parse_streaming_json_response(lines) == StreamingFrames(lines, NONE, <<>>)

\* the last two rules of parse_text_to_records: pipe table, raw lines
TableOrRaw(data_lines) ==
    IF data_lines = <<>> THEN Return(<<>>)
    ELSE IF Contains(data_lines[1], "|") THEN Return(parse_pipe_delimited(data_lines))
    ELSE Return([i \in 1..Len(data_lines) |-> PyDict(<<<<"raw", PyStr(data_lines[i])>>>>)])

\* a bracket-delimited text after json.loads: its error is a ParseError, a
\* list gives its elements, an object a one-element list, anything else
\* falls through to the rules that follow
JsonRecords(parsed, otherwise) ==
    IF parsed.k = "raise"
        THEN IF parsed.err = "JSONDecodeError" THEN Raise("ParseError") ELSE parsed
    ELSE IF parsed.val.t = "list" THEN Return(parsed.val.elems)
    ELSE IF parsed.val.t = "dict" THEN Return(<<parsed.val>>)
    ELSE otherwise

\* parse_text_to_records from the looks_like_json_array rule on
ArrayOrLater(text, data_lines) ==
    IF looks_like_json_array(text)
        THEN JsonRecords(json_loads(text), TableOrRaw(data_lines))
    ELSE TableOrRaw(data_lines)

\* mutant: the bracket-delimited rule is tried before the frames rule
TextRecords_json_before_frames(text, data_lines) ==
    IF looks_like_json_object(text)
        THEN JsonRecords(json_loads(text), ArrayOrLater(text, data_lines))
    ELSE IF data_lines # <<>> /\ StartsWith(data_lines[1], "{")
            /\ Contains(data_lines[1], "\"type\"")
        THEN parse_streaming_json_response(data_lines)
    ELSE ArrayOrLater(text, data_lines)

\* parse_text_to_records after lines and data_lines were computed
TextRecords(text, data_lines) ==
    IF data_lines # <<>> /\ StartsWith(data_lines[1], "{")
       /\ Contains(data_lines[1], "\"type\"")
        THEN parse_streaming_json_response(data_lines)
    ELSE IF looks_like_json_object(text)
        THEN JsonRecords(json_loads(text), ArrayOrLater(text, data_lines))
    ELSE ArrayOrLater(text, data_lines)

\* parse_text_to_records after text = text_data.strip()
StrippedTextRecords(text) ==
    IF text = "" THEN Return(<<>>)
    ELSE TextRecords(text, drop_status_prefix(NonBlankStripped(SplitLines(text))))

parse_text_to_records(text_data) == StrippedTextRecords(Strip(text_data))

parse_and_normalize_response(response, arrow_installed) ==
    IF _looks_like_arrow(Lower(HeaderGet(response.headers, "content-type")), response.body)
        THEN parse_arrow_to_records(response.body, arrow_installed)
    ELSE parse_text_to_records(response.body)

\* body.strip() or "Error occurred"
StrippedOrPlaceholder(stripped) == IF stripped = "" THEN "Error occurred" ELSE stripped

\* extract_error_message after json.loads(body): only a JSONDecodeError is
\* caught, any other exception of the decoder leaves the function
MessageOf(parsed, fallback) ==
    IF parsed.k = "raise"
        THEN IF parsed.err = "JSONDecodeError" THEN Return(fallback) ELSE parsed
    ELSE IF parsed.val.t = "dict" /\ DictHas(parsed.val, "message")
        THEN Return(PyToStr(DictGet(parsed.val, "message")))
    ELSE Return(fallback)

extract_error_message(body) ==
    IF body = "" THEN Return("Error occurred")
    ELSE MessageOf(json_loads(body), StrippedOrPlaceholder(Strip(body)))

\* ----------------------------------------------------------- SnelDBClient
\* mutant: 405 is missing from the command-error statuses
RaiseForStatus_without_405(status, message) ==
    IF status = 400 THEN RaiseMsg("CommandError", message)
    ELSE IF status = 401 THEN RaiseMsg("AuthenticationError", message)
    ELSE IF status = 403 THEN RaiseMsg("AuthorizationError", message)
    ELSE IF status = 404 THEN RaiseMsg("NotFoundError", message)
    ELSE IF status \in {500, 503} THEN RaiseMsg("ServerError", message)
    ELSE RaiseMsg("NameError", "name 'body' is not defined")

\* the raises of _handle_response for a status other than 200.  The last
\* one formats the name `body`, which is bound nowhere in the function or
\* the module: evaluating the f-string raises NameError
RaiseForStatus(status, message) ==
    IF status \in {400, 405} THEN RaiseMsg("CommandError", message)
    ELSE IF status = 401 THEN RaiseMsg("AuthenticationError", message)
    ELSE IF status = 403 THEN RaiseMsg("AuthorizationError", message)
    ELSE IF status = 404 THEN RaiseMsg("NotFoundError", message)
    ELSE IF status \in {500, 503} THEN RaiseMsg("ServerError", message)
    ELSE RaiseMsg("NameError", "name 'body' is not defined")

\* _handle_response after message = extract_error_message(body_text)
RaiseForMessage(status, message) ==
    IF message.k = "raise" THEN message ELSE RaiseForStatus(status, message.val)

\* mutant: a 200 with an empty body is not taken as a success
handle_response_needs_body(response, arrow_installed) ==
    IF response.status = 200 /\ response.body # ""
        THEN parse_and_normalize_response(response, arrow_installed)
    ELSE RaiseForMessage(response.status, extract_error_message(response.body))

_handle_response(response, arrow_installed) ==
    IF response.status = 200 THEN parse_and_normalize_response(response, arrow_installed)
    ELSE RaiseForMessage(response.status, extract_error_message(response.body))

\* one call of transport.execute as the transport receives it
Sent(command, headers) == [command |-> command, headers |-> headers]

\* what an operation did: its calls of transport.execute and its outcome
Did(sent, outcome) == [sent |-> sent, outcome |-> outcome]

\* mutant: a transport.execute that raised is called a second time
SendAndHandle_retries(formatted, headers, behaviour) ==
    IF headers.k = "raise" THEN Did(<<>>, headers)
    ELSE IF behaviour.k = "raise"
        THEN Did(<<Sent(formatted, headers.val), Sent(formatted, headers.val)>>, behaviour)
    ELSE Did(<<Sent(formatted, headers.val)>>, _handle_response(behaviour.val, has_arrow))

\* response = transport.execute(formatted, headers); _handle_response(response)
\* against a transport that behaves as `behaviour` (the response it returns
\* or the exception it raises)
SendAndHandle(formatted, headers, behaviour) ==
    IF headers.k = "raise" THEN Did(<<>>, headers)
    ELSE Did(<<Sent(formatted, headers.val)>>,
             IF behaviour.k = "raise" THEN behaviour
             ELSE _handle_response(behaviour.val, has_arrow))

\* _execute_internal after format_command
ExecuteFormatted(formatted, behaviour) ==
    IF formatted.k = "raise" THEN Did(<<>>, formatted)
    ELSE SendAndHandle(formatted.val,
                       IF kind = "http"
                           THEN add_http_headers(formatted.val, default_headers,
                                                 user_id, secret_key)
                       ELSE Return(default_headers),
                       behaviour)

_execute_internal(command, behaviour) ==
    ExecuteFormatted(format_command(command, kind, user_id, secret_key,
                                    session_token, authenticated_user),
                     behaviour)

\* ExecuteResult(ok, data, error); data and error are Optional
ExecuteResult(ok, data, error) == [ok |-> ok, data |-> data, error |-> error]

\* the try/except of execute_safe around r = _execute_internal(command)
Safely(r) ==
    Did(r.sent,
        IF r.outcome.k = "raise"
            THEN Return(ExecuteResult(FALSE, NONE,
                                      Some([err |-> r.outcome.err, msg |-> r.outcome.msg])))
        ELSE Return(ExecuteResult(TRUE, Some(r.outcome.val), NONE)))

execute_safe(command, behaviour) == Safely(_execute_internal(command, behaviour))

\* mutant: the error execute_safe caught is dropped
RaiseOrData_drops_error(result) ==
    IF ~result.ok THEN RaiseMsg("CommandError", "Command execution failed")
    ELSE Return(IF result.data # NONE THEN result.data[1] ELSE <<>>)

\* execute after result = execute_safe(command): raise result.error or
\* CommandError(...), return result.data or []
RaiseOrData(result) ==
    IF ~result.ok
        THEN IF result.error # NONE
                 THEN RaiseMsg(result.error[1].err, result.error[1].msg)
             ELSE RaiseMsg("CommandError", "Command execution failed")
    ELSE Return(IF result.data # NONE THEN result.data[1] ELSE <<>>)

Unwrapped(r) == Did(r.sent, IF r.outcome.k = "raise" THEN r.outcome
                            ELSE RaiseOrData(r.outcome.val))

execute(command, behaviour) == Unwrapped(execute_safe(command, behaviour))

\* ---------------------------------------------- AuthManager.authenticate
\* what authenticate did, and the session fields it leaves
AuthDid(sent, outcome, token, user) ==
    [sent |-> sent, outcome |-> outcome, session_token |-> token,
     authenticated_user |-> user]
AuthFailed(sent, outcome) == AuthDid(sent, outcome, session_token, authenticated_user)

\* mutant: the token is cached, the authenticated user is not
AuthToken_forgets_user(sent, body, token) ==
    IF token.k = "raise" THEN AuthFailed(sent, token)
    ELSE IF ~Truthy(token.val)
        THEN AuthFailed(sent, RaiseMsg("ConnectionError", "Unexpected AUTH response: " \o body))
    ELSE AuthDid(sent, Return(token.val[1]), token.val, authenticated_user)

\* authenticate after token = self._extract_token(body_text)
AuthToken(sent, body, token) ==
    IF token.k = "raise" THEN AuthFailed(sent, token)
    ELSE IF ~Truthy(token.val)
        THEN AuthFailed(sent, RaiseMsg("ConnectionError", "Unexpected AUTH response: " \o body))
    ELSE AuthDid(sent, Return(token.val[1]), token.val, user_id)

\* authenticate from response = transport.execute(command) on
AuthExchange(command, behaviour) ==
    IF behaviour.k = "raise" THEN AuthFailed(<<Sent(command, NONE)>>, behaviour)
    ELSE IF behaviour.val.status # 200
        THEN AuthFailed(<<Sent(command, NONE)>>,
                        RaiseMsg("AuthenticationError",
                                 "Authentication failed: " \o behaviour.val.body))
    ELSE AuthToken(<<Sent(command, NONE)>>, behaviour.val.body,
                   _extract_token(behaviour.val.body))

\* authenticate after signature = self.compute_signature(self.user_id)
AuthSigned(signature, behaviour) ==
    IF signature.k = "raise" THEN AuthFailed(<<>>, signature)
    ELSE AuthExchange("AUTH " \o user_id[1] \o ":" \o signature.val, behaviour)

\* mutant: the transport kind is not checked
authenticate_on_any_kind(behaviour) ==
    IF ~has_credentials(user_id, secret_key)
        THEN AuthFailed(<<>>, RaiseMsg("AuthenticationError",
                                       "User ID and secret key are required for AUTH"))
    ELSE AuthSigned(compute_signature(secret_key, user_id[1]), behaviour)

authenticate(behaviour) ==
    IF kind # "tcp"
        THEN AuthFailed(<<>>, RaiseMsg("AuthenticationError",
                                       "AUTH is only supported for TCP/TLS transports"))
    ELSE IF ~has_credentials(user_id, secret_key)
        THEN AuthFailed(<<>>, RaiseMsg("AuthenticationError",
                                       "User ID and secret key are required for AUTH"))
    ELSE AuthSigned(compute_signature(secret_key, user_id[1]), behaviour)

\* --------------------------------------------- specification Spec: inputs
\* The client is constructed over a transport of either kind (as the tests
\* do with their DummyTransport); every call of transport.execute returns
\* one of Responses or raises.
Commands == {"PING", " QUERY orders \n"}

NoHeaders == <<>>
ArrowHeaders == [h \in {"content-type"} |-> "application/vnd.apache.Arrow.stream"]

BodyPipe == "OK\nID|NAME\n1|Alice\n2|Bob"
BodyJsonArray == "[{\"id\": 1}, {\"id\": 2}]"
BodyJsonError == "{\"message\":\"boom\",\"code\":400}"
BodyBadJson == "{\"id\": 1,}"
BodyFrames ==
    "{\"type\":\"schema\",\"columns\":[{\"name\":\"a\"},{\"name\":\"b\"}]}\n"
    \o "{\"type\":\"batch\",\"rows\":[[1,2]]}\n{\"type\":\"end\"}\nnot json"
BodyBadFrame == "200 OK\n{\"type\":\"row\",\"values\":[1]}\nnot json"
BodyListFrame == "{\"type\":\"row\",\"values\":[1]}\n[1]"
BodyToken == "OK TOKEN abc123"
BodyTokenMore == "OK TOKEN t1 expires 60\nbye"
BodyTokenEmpty == "OK TOKEN "
BodyMagic == "LP\n\n\n"

OkBodies == {"", "OK", "boom", BodyPipe, BodyJsonArray, BodyJsonError, BodyBadJson,
             BodyFrames, BodyBadFrame, BodyListFrame, BodyToken, BodyTokenMore,
             BodyTokenEmpty, BodyMagic, ArrowStream}
ErrorStatuses == {400, 401, 403, 404, 405, 500, 503}
OtherStatuses == {204, 302}
ErrorBodies == {"", "boom", BodyJsonError}

Responses ==
    {TransportResponse(200, b, NoHeaders) : b \in OkBodies}
    \cup {TransportResponse(200, b, ArrowHeaders) : b \in {ArrowStream, "boom"}}
    \cup {TransportResponse(st, b, NoHeaders) : st \in ErrorStatuses \cup OtherStatuses,
                                                 b \in ErrorBodies}

Behaviours ==
    {Return(r) : r \in Responses} \cup {Raise("ConnectionError"), Raise("OSError")}

Credentials == {<<NONE, NONE>>, <<Some("user"), NONE>>, <<NONE, Some("s3cret")>>,
                <<Some("user"), Some("")>>, <<Some("user"), Some("s3cret")>>}
HeaderSets == {NoHeaders, [h \in {"X-Test"} |-> "1"],
               [h \in {"X-Test", "X-Auth-User"} |-> "1"]}

\* ------------------------------------------------------------ TcpTransport
\* the line ceiling of _read_response_lines and the poll ceiling of
\* _drain_content
ReadCeiling == 1000
DrainCeiling == 1000

\* re.match(r"^(\d{3})", line)
ThreeDigits(line) == Len(line) >= 3 /\ IsDigit(Slice(line, 1, 3))

\* mutant: a leading number is not taken for the status
derive_status_ignores_number(first_line) ==
    IF StartsWith(first_line, "ERROR:") THEN 400 ELSE 200

_derive_status(first_line) ==
    IF StartsWith(first_line, "ERROR:") THEN 400
    ELSE IF ThreeDigits(first_line) THEN StrToInt(Slice(first_line, 1, 3))
    ELSE 200

_is_error_line(line) ==
    IF line = "" THEN FALSE
    ELSE IF StartsWith(line, "ERROR:") THEN TRUE
    ELSE /\ Slice(line, 1, 3) \in {"400", "401", "403", "404", "500", "503"}
         /\ Len(line) >= 4
         /\ Char(line, 4) \in Whitespace

_looks_like_status_line(line) ==
    IF line = "" THEN FALSE
    ELSE \/ StartsWith(line, "OK")
         \/ /\ ThreeDigits(line)
            /\ Len(line) >= 4
            /\ Char(line, 4) \in Whitespace
            /\ StartsWith(LStripSet(Slice(line, 4, Len(line)), Whitespace), "OK")

_is_stream_end(line) ==
    IF line = "" THEN FALSE
    ELSE Contains(line, "\"type\"") /\ Contains(line, "\"end\"")

\* no execute has ended yet, or one is in progress
NoResult == [k |-> "none"]

\* The transport and its connection.  _socket and _reader hold the number of
\* the connection they belong to (0 is None).  Of the connection: `wire` are
\* the lines the peer has written that have not arrived yet, `sockbuf` the
\* lines that have arrived in the socket, `rdbuf` the lines the reader has
\* already taken from the socket into its own buffer; `peer` is "open",
\* "closed" (it closed its end) or "reset"; `timed_out` is the flag a
\* socket-backed reader sets when a read timed out (it then refuses to read
\* from the socket again).  Every line carries the number of the execute it
\* replies to.  History: `executes` and `connections` count the calls and
\* the connections opened, `origins` are the executes whose reply lines the
\* current execute has read, `failed_on` is the connection on which the last
\* execute failed (0 if it did not), `command` is the command the execute
\* was given and `payload` what it handed to sendall, `connects` and `sends`
\* count its calls of create_connection and of sendall, `fault` is the I/O
\* fault that ended it ("none", "connect", "write", "timeout" or "read"),
\* `open` are the connections whose socket this side has not closed, and
\* `closed` tells that the last operation was close().
TcpInit ==
    [_socket |-> 0, _reader |-> 0, pc |-> "idle",
     lines |-> <<>>, iterations |-> 0, polls |-> 0, result |-> NoResult,
     wire |-> <<>>, sockbuf |-> <<>>, rdbuf |-> <<>>, peer |-> "none",
     timed_out |-> FALSE,
     executes |-> 0, connections |-> 0, origins |-> {}, failed_on |-> 0,
     payload |-> NONE, command |-> NONE, connects |-> 0, sends |-> 0,
     fault |-> "none", open |-> {}, closed |-> FALSE]

\* mutant: the reader is released but the socket is kept
reset_keeps_socket(t) == [t EXCEPT !._reader = 0]

\* reader.close() and socket.close(), handles set to None
_reset(t) ==
    [t EXCEPT !._reader = 0, !._socket = 0,
              !.wire = <<>>, !.sockbuf = <<>>, !.rdbuf = <<>>,
              !.peer = "none", !.timed_out = FALSE,
              !.open = t.open \ {t._socket}]

\* mutant: close() releases the reader only
close_keeps_socket(t) == [t EXCEPT !._reader = 0, !.closed = TRUE]

close(t) == [_reset(t) EXCEPT !.closed = TRUE]

Connected(t) == t._socket # 0 /\ t._reader # 0

\* mutant: a connection is opened even when one is held
ensure_connection_always_connects(t) ==
    [t EXCEPT !._socket = t.connections + 1, !._reader = t.connections + 1,
              !.connections = t.connections + 1,
              !.connects = t.connects + 1,
              !.open = t.open \cup {t.connections + 1},
              !.wire = <<>>, !.sockbuf = <<>>, !.rdbuf = <<>>,
              !.peer = "open", !.timed_out = FALSE]

\* _ensure_connection when create_connection and makefile succeed
_ensure_connection(t) ==
    IF Connected(t) THEN t
    ELSE [t EXCEPT !._socket = t.connections + 1, !._reader = t.connections + 1,
                   !.connections = t.connections + 1,
                   !.connects = t.connects + 1,
                   !.open = t.open \cup {t.connections + 1},
                   !.wire = <<>>, !.sockbuf = <<>>, !.rdbuf = <<>>,
                   !.peer = "open", !.timed_out = FALSE]

\* command if command.endswith("\n") else f"{command}\n"
Payload(command) == IF EndsWith(command, "\n") THEN command ELSE command \o "\n"

\* an execute begins: the state its steps start from
Called(t, command) ==
    [t EXCEPT !.executes = t.executes + 1, !.lines = <<>>, !.iterations = 0,
              !.polls = 0, !.result = NoResult, !.origins = {}, !.payload = NONE,
              !.command = Some(command), !.connects = 0, !.sends = 0,
              !.fault = "none", !.closed = FALSE]

\* the execute raises
Raises(t, error) ==
    [t EXCEPT !.pc = "idle", !.result = error, !.failed_on = t._socket]

\* the execute returns the response built from the collected lines
Returns(t) ==
    [t EXCEPT !.pc = "idle", !.failed_on = 0,
              !.result = Return(TransportResponse(
                             _derive_status(IF t.lines = <<>> THEN "" ELSE t.lines[1]),
                             Join(t.lines, "\n"), <<>>))]

\* the lines of a reply as the peer writes them in answer to execute k
RECURSIVE Tagged(_, _)
Tagged(reply, k) ==
    IF reply = <<>> THEN <<>>
    ELSE <<[reply_to |-> k, text |-> reply[1]]>> \o Tagged(Tail(reply), k)

\* reader.readline() can return a line: one is buffered in the reader, or
\* the socket holds one and the reader still reads from it
CanRead(t) == t.rdbuf # <<>> \/ (~t.timed_out /\ t.sockbuf # <<>>)

\* the line reader.readline() returns
NextLine(t) == IF t.rdbuf # <<>> THEN t.rdbuf[1] ELSE t.sockbuf[1]

\* the connection after that readline: a read from the socket takes all
\* that has arrived into the reader's buffer
AfterRead(t, line) ==
    IF t.rdbuf # <<>>
        THEN [t EXCEPT !.rdbuf = Tail(t.rdbuf), !.origins = t.origins \cup {line.reply_to}]
    ELSE [t EXCEPT !.rdbuf = Tail(t.sockbuf), !.sockbuf = <<>>,
                   !.origins = t.origins \cup {line.reply_to}]

\* reader.readline() returns "": the peer closed and nothing is left to read
AtEof(t) ==
    t.rdbuf = <<>> /\ t.sockbuf = <<>> /\ t.wire = <<>> /\ t.peer = "closed" /\ ~t.timed_out

\* reader.readline() blocks: nothing to read on an open connection
Blocked(t) == t.rdbuf = <<>> /\ t.sockbuf = <<>> /\ t.peer = "open" /\ ~t.timed_out

\* reader.readline() raises an OSError other than a timeout
ReadFault(t) ==
    t.rdbuf = <<>> /\ (t.timed_out \/ (t.sockbuf = <<>> /\ t.peer = "reset"))
ReadFaultError(t) ==
    IF t.timed_out THEN RaiseMsg("OSError", "cannot read from timed out object")
    ELSE RaiseMsg("ConnectionResetError", "Connection reset by peer")

\* mutant: blank lines are collected too
Collected_keeps_blank(t, stripped) ==
    [t EXCEPT !.lines = Append(t.lines, stripped)]

\* if stripped: lines.append(stripped)
Collected(t, stripped) ==
    IF stripped = "" THEN t ELSE [t EXCEPT !.lines = Append(t.lines, stripped)]

\* mutant: the loop has no ceiling
AfterLine_without_ceiling(t, stripped) ==
    IF _is_stream_end(stripped) \/ _is_error_line(stripped) THEN Returns(t)
    ELSE IF _looks_like_status_line(stripped) THEN [t EXCEPT !.pc = "draining"]
    ELSE t

\* _read_response_lines after a line was read and collected
AfterLine(t, stripped) ==
    IF _is_stream_end(stripped) \/ _is_error_line(stripped) THEN Returns(t)
    ELSE IF _looks_like_status_line(stripped) THEN [t EXCEPT !.pc = "draining"]
    ELSE IF t.iterations < ReadCeiling THEN t
    ELSE Returns(t)

\* _drain_content after a line was read
AfterDrained(t, stripped) ==
    IF stripped = "" THEN Returns(t)
    ELSE IF _is_stream_end(stripped) THEN Returns(Collected(t, stripped))
    ELSE IF t.polls < DrainCeiling THEN Collected(t, stripped)
    ELSE Returns(Collected(t, stripped))

\* select.select([self._socket], [], [], 0.1) reports the socket readable
Ready(t) ==
    t.sockbuf # <<>> \/ t.peer = "reset" \/ (t.peer = "closed" /\ t.wire = <<>>)

\* ----------------------------------------------------------- HttpTransport
\* `_owns_client`: the transport created its httpx client; `client_closed`:
\* that client was closed; `request`: the last post; `post`: what the post
\* did (a response or an httpx exception); `result`: what the last execute
\* did
HttpInit(owns) ==
    [_owns_client |-> owns, client_closed |-> FALSE, request |-> NONE,
     post |-> NoResult, result |-> NoResult, close_called |-> FALSE]

\* {"Content-Type": "text/plain"} updated with the headers given, if any
RequestHeaders(headers) ==
    IF headers = NONE \/ headers[1] = <<>> THEN [h \in {"Content-Type"} |-> "text/plain"]
    ELSE [h \in {"Content-Type"} \cup DOMAIN headers[1] |->
              IF h \in DOMAIN headers[1] THEN headers[1][h] ELSE "text/plain"]

\* {k.lower(): v for k, v in response.headers.items()}
LowerKeys(headers) ==
    [h \in {Lower(k) : k \in DOMAIN headers} |->
        headers[CHOOSE k \in DOMAIN headers : Lower(k) = h]]

\* HttpTransport.execute for what self._client.post did
http_execute(post) ==
    IF post.k = "return"
        THEN Return(TransportResponse(post.val.status, post.val.body,
                                      LowerKeys(post.val.headers)))
    ELSE IF post.err = "TimeoutException"
        THEN RaiseMsg("ConnectionError", "HTTP request timeout")
    ELSE IF post.err = "RequestError"
        THEN RaiseMsg("ConnectionError", "Cannot connect")
    ELSE post

\* ------------------------------------------------ specification Spec
\* no call in progress and no result pending
NoOp == [op |-> "idle"]

Op(name, command, behaviour, r) ==
    [op |-> name, command |-> command, behaviour |-> behaviour,
     sent |-> r.sent, outcome |-> r.outcome,
     pre_token |-> session_token, pre_user |-> authenticated_user]

ClientInit ==
    /\ kind \in {"tcp", "http"}
    /\ \E c \in Credentials : user_id = c[1] /\ secret_key = c[2]
    /\ session_token = NONE
    /\ authenticated_user = NONE
    /\ default_headers \in HeaderSets
    /\ has_arrow \in BOOLEAN
    /\ auth_history = [token |-> NONE, cleared |-> FALSE]
    /\ last = NoOp

Init == ClientInit /\ tcp = TcpInit /\ http = HttpInit(TRUE)

\* SnelDBClient.execute(command)
Execute ==
    \E command \in Commands, behaviour \in Behaviours :
        /\ last = NoOp
        /\ last' = Op("execute", command, behaviour, execute(command, behaviour))
        /\ UNCHANGED <<kind, user_id, secret_key, session_token, authenticated_user,
                       default_headers, has_arrow, auth_history, tcp, http>>

\* SnelDBClient.execute_safe(command)
ExecuteSafe ==
    \E command \in Commands, behaviour \in Behaviours :
        /\ last = NoOp
        /\ last' = Op("execute_safe", command, behaviour, execute_safe(command, behaviour))
        /\ UNCHANGED <<kind, user_id, secret_key, session_token, authenticated_user,
                       default_headers, has_arrow, auth_history, tcp, http>>

\* the state after authenticate did r
Authenticated(behaviour, r) ==
    /\ session_token' = r.session_token
    /\ authenticated_user' = r.authenticated_user
    /\ auth_history' = IF r.outcome.k = "return"
                           THEN [token |-> Some(r.outcome.val), cleared |-> FALSE]
                       ELSE auth_history
    /\ last' = Op("authenticate", "", behaviour, r)

\* SnelDBClient.authenticate()
Authenticate ==
    \E behaviour \in Behaviours :
        /\ last = NoOp
        /\ Authenticated(behaviour, authenticate(behaviour))
        /\ UNCHANGED <<kind, user_id, secret_key, default_headers, has_arrow, tcp, http>>

\* AuthManager.compute_signature(message), called by the user
ComputeSignature ==
    \E message \in Commands :
        /\ last = NoOp
        /\ last' = Op("compute_signature", message, Raise("none"),
                      Did(<<>>, compute_signature(secret_key, message)))
        /\ UNCHANGED <<kind, user_id, secret_key, session_token, authenticated_user,
                       default_headers, has_arrow, auth_history, tcp, http>>

\* AuthManager.clear()
Clear ==
    /\ last = NoOp
    /\ session_token' = NONE
    /\ authenticated_user' = NONE
    /\ auth_history' = [token |-> NONE,
                        cleared |-> auth_history.cleared \/ auth_history.token # NONE]
    /\ last' = Op("clear", "", Raise("none"), Did(<<>>, Return(<<>>)))
    /\ UNCHANGED <<kind, user_id, secret_key, default_headers, has_arrow, tcp, http>>

\* SnelDBClient.close(): transport.close() and nothing else
Close ==
    /\ last = NoOp
    /\ last' = Op("close", "", Raise("none"), Did(<<>>, Return(<<>>)))
    /\ UNCHANGED <<kind, user_id, secret_key, session_token, authenticated_user,
                   default_headers, has_arrow, auth_history, tcp, http>>

\* the caller takes the result or the exception of the call that ended; the
\* client is synchronous, so the next call starts only after that
Resume ==
    /\ last # NoOp
    /\ last' = NoOp
    /\ UNCHANGED <<kind, user_id, secret_key, session_token, authenticated_user,
                   default_headers, has_arrow, auth_history, tcp, http>>

Next ==
    \/ Execute \/ ExecuteSafe \/ Authenticate \/ ComputeSignature
    \/ Clear \/ Close \/ Resume

Spec == Init /\ [][Next]_vars

\* --------------------------------------------- specification SpecTransport
\* One transport object, TCP or HTTP, driven by its caller while the peer
\* and the network act on their own.
MaxExecutes == 3
MaxConnections == 2

TcpCommands == {"PING", "PING\n"}

\* what the server writes in answer to one command
Replies ==
    { <<"OK">>,
      <<"OK", "1|Alice", "">>,
      <<"ERROR: bad">>,
      <<"{\"type\":\"row\",\"values\":[1]}", "{\"type\":\"end\"}">> }

HttpHeaderSets == {<<>>, [h \in {"Content-Type"} |-> "text/plain"]}
HttpPosts ==
    {Return(TransportResponse(st, "boom", h)) : st \in {200, 503}, h \in HttpHeaderSets}
    \cup {Raise("TimeoutException"), Raise("RequestError")}
HttpRequestHeaders == {NONE, Some([h \in {"X-Auth-User"} |-> "user"])}

\* the client side is not involved: a transport used on its own
TransportInit ==
    /\ kind \in {"tcp", "http"}
    /\ user_id = NONE
    /\ secret_key = NONE
    /\ session_token = NONE
    /\ authenticated_user = NONE
    /\ default_headers = NoHeaders
    /\ has_arrow = FALSE
    /\ auth_history = [token |-> NONE, cleared |-> FALSE]
    /\ last = NoOp
    /\ tcp = TcpInit
    /\ \E owns \in BOOLEAN : http = HttpInit(owns /\ kind = "http") /\ (kind = "tcp" => owns)

\* the transport after an execute whose create_connection raised: _reset,
\* then ConnectionError
ConnectFailed(t, command) ==
    [Raises(_reset(Called(t, command)), RaiseMsg("ConnectionError", "Cannot connect"))
         EXCEPT !.connects = 1, !.fault = "connect"]

\* the transport after an execute whose sendall raised: _reset, then
\* ConnectionError
WriteFailed(t, command) ==
    [_reset(Raises(Called(t, command), RaiseMsg("ConnectionError", "TCP write failed")))
         EXCEPT !.payload = Some(Payload(command)), !.sends = 1, !.fault = "write"]

TcpIdle == kind = "tcp" /\ tcp.pc = "idle" /\ tcp.executes < MaxExecutes

\* execute: create_connection fails
TcpConnectFails ==
    /\ TcpIdle
    /\ ~Connected(tcp)
    /\ \E command \in TcpCommands : tcp' = ConnectFailed(tcp, command)
    /\ UNCHANGED <<clientVars, http>>

\* execute: sendall fails on the connection held from an earlier execute
TcpWriteFails ==
    /\ TcpIdle
    /\ Connected(tcp)
    /\ tcp.peer \in {"closed", "reset"}
    /\ \E command \in TcpCommands : tcp' = WriteFailed(tcp, command)
    /\ UNCHANGED <<clientVars, http>>

\* the transport after sendall succeeded; an open peer writes its reply
Written(t, command, reply) ==
    [t EXCEPT !.payload = Some(Payload(command)),
              !.sends = t.sends + 1,
              !.pc = "reading",
              !.wire = IF t.peer = "open" THEN t.wire \o Tagged(reply, t.executes)
                       ELSE t.wire]

\* execute: the connection is there or is opened, and the command is written
TcpExecute ==
    /\ TcpIdle
    /\ Connected(tcp) \/ tcp.connections < MaxConnections
    /\ _ensure_connection(tcp).peer \in {"open", "closed"}
    /\ \E command \in TcpCommands, reply \in Replies :
           tcp' = Written(_ensure_connection(Called(tcp, command)), command, reply)
    /\ UNCHANGED <<clientVars, http>>

TcpReading == kind = "tcp" /\ tcp.pc = "reading"
TcpDraining == kind = "tcp" /\ tcp.pc = "draining"

\* one turn of the receive loop in which readline returns a line
ReadLine(t, line) ==
    AfterLine(Collected([AfterRead(t, line) EXCEPT !.iterations = t.iterations + 1],
                        RStripSet(line.text, {"\r", "\n"})),
              RStripSet(line.text, {"\r", "\n"}))

TcpReadLine ==
    /\ TcpReading
    /\ CanRead(tcp)
    /\ tcp' = ReadLine(tcp, NextLine(tcp))
    /\ UNCHANGED <<clientVars, http>>

\* readline returns "": _readline gives None and the loop ends
TcpReadEof ==
    /\ TcpReading
    /\ AtEof(tcp)
    /\ tcp' = Returns([tcp EXCEPT !.iterations = tcp.iterations + 1])
    /\ UNCHANGED <<clientVars, http>>

\* readline blocks for the read timeout: _readline raises ConnectionError
TcpReadTimeout ==
    /\ TcpReading
    /\ Blocked(tcp)
    /\ tcp' = Raises([tcp EXCEPT !.iterations = tcp.iterations + 1, !.timed_out = TRUE,
                                 !.fault = "timeout"],
                     RaiseMsg("ConnectionError", "TCP read timeout"))
    /\ UNCHANGED <<clientVars, http>>

\* readline raises another OSError, which _readline does not catch
TcpReadError ==
    /\ TcpReading
    /\ ReadFault(tcp)
    /\ tcp' = Raises([tcp EXCEPT !.iterations = tcp.iterations + 1, !.fault = "read"],
                     ReadFaultError(tcp))
    /\ UNCHANGED <<clientVars, http>>

\* a poll of the drain finds the socket not readable within its 0.1 s
TcpDrainNotReady ==
    /\ TcpDraining
    /\ ~Ready(tcp)
    /\ tcp' = Returns([tcp EXCEPT !.polls = tcp.polls + 1])
    /\ UNCHANGED <<clientVars, http>>

\* a poll finds it readable and readline returns a line
TcpDrainLine ==
    /\ TcpDraining
    /\ Ready(tcp)
    /\ CanRead(tcp)
    /\ tcp' = AfterDrained([AfterRead(tcp, NextLine(tcp)) EXCEPT !.polls = tcp.polls + 1],
                           RStripSet(NextLine(tcp).text, {"\r", "\n"}))
    /\ UNCHANGED <<clientVars, http>>

\* a poll finds it readable and readline returns ""
TcpDrainEof ==
    /\ TcpDraining
    /\ Ready(tcp)
    /\ AtEof(tcp)
    /\ tcp' = Returns([tcp EXCEPT !.polls = tcp.polls + 1])
    /\ UNCHANGED <<clientVars, http>>

\* a poll finds it readable and readline raises; nothing catches it
TcpDrainError ==
    /\ TcpDraining
    /\ Ready(tcp)
    /\ ReadFault(tcp)
    /\ tcp' = Raises([tcp EXCEPT !.polls = tcp.polls + 1, !.fault = "read"],
                     ReadFaultError(tcp))
    /\ UNCHANGED <<clientVars, http>>

TcpClose ==
    /\ kind = "tcp"
    /\ tcp.pc = "idle"
    /\ tcp' = close(tcp)
    /\ UNCHANGED <<clientVars, http>>

\* the network: the next line in flight arrives at the socket
Deliver ==
    /\ kind = "tcp"
    /\ tcp.wire # <<>>
    /\ tcp' = [tcp EXCEPT !.wire = Tail(tcp.wire),
                          !.sockbuf = Append(tcp.sockbuf, Head(tcp.wire))]
    /\ UNCHANGED <<clientVars, http>>

\* the peer closes its end; what it wrote before still arrives
PeerCloses ==
    /\ kind = "tcp"
    /\ tcp.peer = "open"
    /\ tcp' = [tcp EXCEPT !.peer = "closed"]
    /\ UNCHANGED <<clientVars, http>>

\* the peer resets the connection; what had not been read yet is lost
PeerResets ==
    /\ kind = "tcp"
    /\ tcp.peer \in {"open", "closed"}
    /\ tcp' = [tcp EXCEPT !.peer = "reset", !.wire = <<>>, !.sockbuf = <<>>]
    /\ UNCHANGED <<clientVars, http>>

\* HttpTransport.execute; a closed httpx client may refuse to send
HttpExecute ==
    /\ kind = "http"
    /\ \E command \in TcpCommands, headers \in HttpRequestHeaders,
          post \in HttpPosts \cup (IF http.client_closed THEN {Raise("RuntimeError")}
                                   ELSE {}) :
           http' = [http EXCEPT
                        !.request = Some([content |-> command,
                                          headers |-> RequestHeaders(headers)]),
                        !.post = post,
                        !.result = http_execute(post)]
    /\ UNCHANGED <<clientVars, tcp>>

\* mutant: close closes the client whoever created it
HttpClose_closes_any_client ==
    /\ kind = "http"
    /\ http' = [http EXCEPT !.client_closed = TRUE, !.close_called = TRUE]
    /\ UNCHANGED <<clientVars, tcp>>

HttpClose ==
    /\ kind = "http"
    /\ http' = [http EXCEPT !.client_closed = http.client_closed \/ http._owns_client,
                            !.close_called = TRUE]
    /\ UNCHANGED <<clientVars, tcp>>

NextTransport ==
    \/ TcpConnectFails \/ TcpWriteFails \/ TcpExecute
    \/ TcpReadLine \/ TcpReadEof \/ TcpReadTimeout \/ TcpReadError
    \/ TcpDrainNotReady \/ TcpDrainLine \/ TcpDrainEof \/ TcpDrainError
    \/ TcpClose
    \/ Deliver \/ PeerCloses \/ PeerResets
    \/ HttpExecute \/ HttpClose

SpecTransport == TransportInit /\ [][NextTransport]_vars

\* ----------------------------------------------- specification SpecCeiling
\* A TCP transport against a server that never stops talking and never
\* closes: whenever the client has read all that was sent, the server sends
\* one more line, a data row or a blank line in turn, none of them terminal.
ChatterLine(n) == IF n % 2 = 0 THEN "row" ELSE ""

\* execute: the command is written and the server starts to talk
CeilingExecute ==
    /\ TcpIdle
    /\ Connected(tcp) \/ tcp.connections < MaxConnections
    /\ tcp' = Written(_ensure_connection(Called(tcp, "PING")), "PING", <<>>)
    /\ UNCHANGED <<clientVars, http>>

Chatter ==
    /\ TcpReading
    /\ tcp.peer = "open"
    /\ tcp.wire = <<>> /\ tcp.sockbuf = <<>> /\ tcp.rdbuf = <<>>
    /\ tcp' = [tcp EXCEPT !.wire = <<[reply_to |-> tcp.executes,
                                      text |-> ChatterLine(tcp.iterations)]>>]
    /\ UNCHANGED <<clientVars, http>>

NextCeiling == CeilingExecute \/ Chatter \/ Deliver \/ TcpReadLine

CeilingInit ==
    /\ TransportInit
    /\ kind = "tcp"

SpecCeiling == CeilingInit /\ [][NextCeiling]_vars

\* ----------------------------------------------- specification SpecFraming
\* One execute of a TCP transport against a server that answers with one of
\* the replies below, while the lines arrive one by one and the server may
\* close its end at any moment.
RowFrame == "{\"type\":\"row\",\"values\":[1]}"
RowFrameWithEnd == "{\"type\":\"row\",\"values\":[\"end\"]}"
EndFrame == "{\"type\":\"end\"}"

FramingReplies ==
    { <<>>,
      <<"OK">>,
      <<"OK", "1|Alice", "", "late">>,
      <<"OK 2 rows", "a", EndFrame, "b">>,
      <<"200 OK", "ID|NAME\r", "1|Alice">>,
      <<"ERROR: bad", "more">>,
      <<"404 Not Found", "more">>,
      <<"503\tbusy">>,
      <<"405 Method Not Allowed">>,
      <<"4040 rows", "OK">>,
      <<"", "hello\r">>,
      <<"", "hello\r", "  ", "ERROR: late">>,
      <<"the end", "\"end\"", "OK">>,
      <<RowFrame, EndFrame, "more">>,
      <<RowFrameWithEnd, RowFrame, EndFrame>> }

FramingInit ==
    /\ TransportInit
    /\ kind = "tcp"

\* execute: the connection is opened and the command is written; `last`
\* keeps the reply the server gives
FramingExecute ==
    /\ kind = "tcp" /\ tcp.pc = "idle" /\ tcp.executes = 0
    /\ \E command \in TcpCommands, reply \in FramingReplies :
           /\ tcp' = Written(_ensure_connection(Called(tcp, command)), command, reply)
           /\ last' = [op |-> "reply", reply |-> reply]
    /\ UNCHANGED <<kind, user_id, secret_key, session_token, authenticated_user,
                   default_headers, has_arrow, auth_history, http>>

NextFraming ==
    \/ FramingExecute
    \/ TcpReadLine \/ TcpReadEof \/ TcpReadTimeout
    \/ TcpDrainNotReady \/ TcpDrainLine \/ TcpDrainEof
    \/ Deliver \/ PeerCloses

SpecFraming == FramingInit /\ [][NextFraming]_vars

\* ------------------------------------------------- specification SpecStack
\* A SnelDBClient without credentials over the TCP transport: each execute
\* or execute_safe of the client runs the transport's execute to its end
\* and handles what it returned or raised.

\* the client is inside execute / execute_safe, waiting for the transport
Pending(name, command) ==
    [op |-> "pending", name |-> name, command |-> command, calls |-> tcp.executes]

StackInit ==
    /\ TransportInit
    /\ kind = "tcp"

\* what _execute_internal passes to transport.execute
Formatted(command) ==
    format_command(command, kind, user_id, secret_key, session_token,
                   authenticated_user).val

StackIdle == TcpIdle /\ last = NoOp

\* the client's call reaches the transport, whose create_connection fails
StackConnectFails ==
    /\ StackIdle
    /\ ~Connected(tcp)
    /\ \E name \in {"execute", "execute_safe"}, command \in TcpCommands :
           /\ last' = Pending(name, command)
           /\ tcp' = ConnectFailed(tcp, Formatted(command))
    /\ UNCHANGED <<kind, user_id, secret_key, session_token, authenticated_user,
                   default_headers, has_arrow, auth_history, http>>

\* the client's call reaches the transport, whose sendall fails
StackWriteFails ==
    /\ StackIdle
    /\ Connected(tcp)
    /\ tcp.peer \in {"closed", "reset"}
    /\ \E name \in {"execute", "execute_safe"}, command \in TcpCommands :
           /\ last' = Pending(name, command)
           /\ tcp' = WriteFailed(tcp, Formatted(command))
    /\ UNCHANGED <<kind, user_id, secret_key, session_token, authenticated_user,
                   default_headers, has_arrow, auth_history, http>>

\* the client's call reaches the transport, which sends the command
StackExecute ==
    /\ StackIdle
    /\ Connected(tcp) \/ tcp.connections < MaxConnections
    /\ _ensure_connection(tcp).peer \in {"open", "closed"}
    /\ \E name \in {"execute", "execute_safe"}, command \in TcpCommands,
          reply \in Replies :
           /\ last' = Pending(name, command)
           /\ tcp' = Written(_ensure_connection(Called(tcp, Formatted(command))),
                             Formatted(command), reply)
    /\ UNCHANGED <<kind, user_id, secret_key, session_token, authenticated_user,
                   default_headers, has_arrow, auth_history, http>>

\* transport.execute has returned or raised: the client handles it
StackReturn ==
    /\ kind = "tcp"
    /\ tcp.pc = "idle"
    /\ last.op = "pending"
    /\ last' = Op(last.name, last.command, tcp.result,
                  IF last.name = "execute" THEN execute(last.command, tcp.result)
                  ELSE execute_safe(last.command, tcp.result))
    /\ UNCHANGED <<kind, user_id, secret_key, session_token, authenticated_user,
                   default_headers, has_arrow, auth_history, tcp, http>>

\* the caller takes the result or the exception
StackResume ==
    /\ last.op \in {"execute", "execute_safe"}
    /\ Resume

NextStack ==
    \/ StackConnectFails \/ StackWriteFails \/ StackExecute
    \/ TcpReadLine \/ TcpReadEof \/ TcpReadTimeout \/ TcpReadError
    \/ TcpDrainNotReady \/ TcpDrainLine \/ TcpDrainEof \/ TcpDrainError
    \/ Deliver \/ PeerCloses \/ PeerResets
    \/ StackReturn \/ StackResume

SpecStack == StackInit /\ [][NextStack]_vars

\* ------------------------------------------------ specification SpecParser
\* The response normalizer on its own: each action hands one input to one
\* of its functions and records the input and what the function did.
MaxFrames == 3

\* one line of a streaming response and what it says
FrameLine(line, type, columns, rows, object) ==
    [line |-> line, type |-> type, columns |-> columns, rows |-> rows, object |-> object]

FrameLines ==
    { FrameLine("{\"type\":\"schema\",\"columns\":[{\"name\":\"a\"},{\"name\":\"b\"}]}",
                "schema", <<"a", "b">>, <<>>, NONE),
      FrameLine("{\"type\":\"schema\",\"columns\":[{\"name\":\"c\"}]}",
                "schema", <<"c">>, <<>>, NONE),
      FrameLine("{\"type\":\"schema\",\"columns\":[]}", "schema", <<>>, <<>>, NONE),
      FrameLine("{\"type\":\"batch\",\"rows\":[[1,2],[3]]}",
                "batch", <<>>, <<<<PyInt(1), PyInt(2)>>, <<PyInt(3)>>>>, NONE),
      FrameLine("{\"type\":\"row\",\"values\":[]}", "row", <<>>, <<<<>>>>, NONE),
      FrameLine("{\"type\":\"row\",\"values\":{\"x\":7}}",
                "row", <<>>, <<>>, Some(PyDict(<<<<"x", PyInt(7)>>>>))),
      FrameLine("{\"type\":\"end\"}", "end", <<>>, <<>>, NONE),
      FrameLine("not json", "malformed", <<>>, <<>>, NONE) }

FrameSeqs == UNION {[1..n -> FrameLines] : n \in 0..MaxFrames}

ParserInit ==
    /\ kind = "http"
    /\ user_id = NONE
    /\ secret_key = NONE
    /\ session_token = NONE
    /\ authenticated_user = NONE
    /\ default_headers = NoHeaders
    /\ has_arrow \in BOOLEAN
    /\ auth_history = [token |-> NONE, cleared |-> FALSE]
    /\ last = NoOp
    /\ tcp = TcpInit
    /\ http = HttpInit(TRUE)

\* parse_streaming_json_response(lines)
DecodeFrames ==
    \E frames \in FrameSeqs :
        /\ last = NoOp
        /\ last' = [op |-> "frames", frames |-> frames,
                    out |-> parse_streaming_json_response(
                                [i \in 1..Len(frames) |-> frames[i].line])]
        /\ UNCHANGED <<kind, user_id, secret_key, session_token, authenticated_user,
                       default_headers, has_arrow, auth_history, tcp, http>>

BodyTypedObject == "{\"type\":\"x\",\"id\":1}"
BodyTypeValue == "{\"kind\":\"type\"}"
BodySplitFrame == "{\"type\":\"row\",\n\"values\":[1]}"
BodyObject == "{\"id\": 1, \"name\": \"x\", \"ok\": true, \"n\": null}"
BodySplitObject == "{\n\"id\": 1\n}"
BodyMixedArray == "[{\"id\":1},\"x\",3,[true]]"
BodyBadArray == "[1,]"
BodyPipeInJson == "{\"a\":\"1|2\"}"
BodyStatusThenArray == "OK\n[1]"
BodyMagicTable == "LP|ab\n1|2"

ParserBodies ==
    OkBodies \cup {BodyTypedObject, BodyTypeValue, BodySplitFrame, BodyObject,
                   BodySplitObject, BodyMixedArray, BodyBadArray, BodyPipeInJson,
                   BodyStatusThenArray, BodyMagicTable}

\* parse_and_normalize_response(response)
Normalize ==
    \E body \in ParserBodies, headers \in {NoHeaders, ArrowHeaders} :
        /\ last = NoOp
        /\ last' = [op |-> "normalize",
                    response |-> TransportResponse(200, body, headers),
                    out |-> parse_and_normalize_response(
                                TransportResponse(200, body, headers), has_arrow)]
        /\ UNCHANGED <<kind, user_id, secret_key, session_token, authenticated_user,
                       default_headers, has_arrow, auth_history, tcp, http>>

MaxRows == 2

\* a pipe table as the server writes it: an optional status line, the
\* header tokens, and the values of each following line
TableStatuses == {NONE, Some("OK"), Some("200 OK")}
TableHeaders ==
    { <<"ID", "NAME">>, <<" id ", "Na_me">>, <<"__", "a">>, <<"a", "A">>,
      <<"ok", "n">>, <<"a b", "c">> }
TableRows == { <<"1", "Alice">>, <<" 2 ", " Bob ">>, <<"3">>, <<"4", "5", "6">>, <<"">> }
Tables ==
    [status : TableStatuses, header : TableHeaders,
     rows : UNION {[1..n -> TableRows] : n \in 0..MaxRows}]

\* the lines of a table, each the tokens it is made of
TableTokens(table) ==
    (IF table.status = NONE THEN <<>> ELSE <<table.status>>)
    \o <<table.header>> \o table.rows

TableBody(table) ==
    Join([i \in 1..Len(TableTokens(table)) |-> Join(TableTokens(table)[i], "|")], "\n")

\* parse_and_normalize_response on the body of a pipe table
ParseTable ==
    \E table \in Tables :
        /\ last = NoOp
        /\ last' = [op |-> "table", table |-> table,
                    out |-> parse_and_normalize_response(
                                TransportResponse(200, TableBody(table), NoHeaders),
                                has_arrow)]
        /\ UNCHANGED <<kind, user_id, secret_key, session_token, authenticated_user,
                       default_headers, has_arrow, auth_history, tcp, http>>

\* the caller takes what the function returned or raised
BodyDeepArray == Repeat("[", RecursionLimit)
BodyNumberMessage == "{\"message\":5}"
BodyNullMessage == "{\"message\":null}"
BodyEmptyMessage == "{\"message\":\"\"}"
BodyPaddedMessage == " {\"message\": \" boom \"} "

MessageBodies ==
    {"", "   ", " \n", "  boom \n", "boom", "not found\r\n", BodyJsonError,
     BodyNumberMessage, BodyNullMessage, BodyEmptyMessage, BodyPaddedMessage,
     BodyBadJson, BodyJsonArray, BodyObject, BodyBadArray, "5", "null", " [1] ",
     BodyDeepArray}

\* extract_error_message(body)
ExtractMessage ==
    \E body \in MessageBodies :
        /\ last = NoOp
        /\ last' = [op |-> "message", body |-> body,
                    out |-> extract_error_message(body)]
        /\ UNCHANGED <<kind, user_id, secret_key, session_token, authenticated_user,
                       default_headers, has_arrow, auth_history, tcp, http>>

ParserResume ==
    /\ last # NoOp
    /\ last' = NoOp
    /\ UNCHANGED <<kind, user_id, secret_key, session_token, authenticated_user,
                   default_headers, has_arrow, auth_history, tcp, http>>

NextParser == DecodeFrames \/ Normalize \/ ParseTable \/ ExtractMessage \/ ParserResume

SpecParser == ParserInit /\ [][NextParser]_vars

\* ----------------------------------------------- specification SpecSession
\* A SnelDBClient with credentials over the TCP transport: authenticate,
\* execute, execute_safe, clear and close of the client, each running the
\* transport's execute to its end, while the network and the server act on
\* their own.
SessionInit ==
    /\ kind = "tcp"
    /\ user_id = Some("user")
    /\ secret_key = Some("s3cret")
    /\ session_token = NONE
    /\ authenticated_user = NONE
    /\ default_headers = NoHeaders
    /\ has_arrow = FALSE
    /\ auth_history = [token |-> NONE, cleared |-> FALSE]
    /\ last = NoOp
    /\ tcp = TcpInit
    /\ http = HttpInit(FALSE)

\* the calls of the client: the operation and its command
SessionCalls == {<<"execute", "PING">>, <<"execute_safe", "PING">>, <<"authenticate", "">>}

\* f"AUTH {self.user_id}:{signature}"
AuthCommand == "AUTH " \o user_id[1] \o ":" \o compute_signature(secret_key, user_id[1]).val

\* what the call passes to transport.execute
OnWire(call) == IF call[1] = "authenticate" THEN AuthCommand ELSE Formatted(call[2])

\* what the server answers to it
SessionReplies(call) ==
    IF call[1] = "authenticate" THEN {<<"OK TOKEN t1">>, <<"ERROR: bad">>}
    ELSE {<<"OK">>, <<"401 Unauthorized">>}

\* the call reaches the transport, whose create_connection fails
SessionConnectFails ==
    /\ StackIdle
    /\ ~Connected(tcp)
    /\ \E call \in SessionCalls :
           /\ last' = Pending(call[1], call[2])
           /\ tcp' = ConnectFailed(tcp, OnWire(call))
    /\ UNCHANGED <<kind, user_id, secret_key, session_token, authenticated_user,
                   default_headers, has_arrow, auth_history, http>>

\* the call reaches the transport, whose sendall fails
SessionWriteFails ==
    /\ StackIdle
    /\ Connected(tcp)
    /\ tcp.peer \in {"closed", "reset"}
    /\ \E call \in SessionCalls :
           /\ last' = Pending(call[1], call[2])
           /\ tcp' = WriteFailed(tcp, OnWire(call))
    /\ UNCHANGED <<kind, user_id, secret_key, session_token, authenticated_user,
                   default_headers, has_arrow, auth_history, http>>

\* the call reaches the transport, which sends the command
SessionExecute ==
    /\ StackIdle
    /\ Connected(tcp) \/ tcp.connections < MaxConnections
    /\ _ensure_connection(tcp).peer \in {"open", "closed"}
    /\ \E call \in SessionCalls :
           \E reply \in SessionReplies(call) :
               /\ last' = Pending(call[1], call[2])
               /\ tcp' = Written(_ensure_connection(Called(tcp, OnWire(call))),
                                 OnWire(call), reply)
    /\ UNCHANGED <<kind, user_id, secret_key, session_token, authenticated_user,
                   default_headers, has_arrow, auth_history, http>>

\* transport.execute has returned or raised inside authenticate
SessionAuthReturn ==
    /\ kind = "tcp"
    /\ tcp.pc = "idle"
    /\ last.op = "pending" /\ last.name = "authenticate"
    /\ Authenticated(tcp.result, authenticate(tcp.result))
    /\ UNCHANGED <<kind, user_id, secret_key, default_headers, has_arrow, tcp, http>>

\* transport.execute has returned or raised inside execute / execute_safe
SessionReturn ==
    /\ last.op = "pending" /\ last.name # "authenticate"
    /\ StackReturn

\* AuthManager.clear() between two calls
SessionClear == tcp.pc = "idle" /\ Clear

\* mutant: close() also drops the session
SessionClose_clears_session ==
    /\ kind = "tcp"
    /\ tcp.pc = "idle"
    /\ last = NoOp
    /\ tcp' = close(tcp)
    /\ last' = Op("close", "", Raise("none"), Did(<<>>, Return(<<>>)))
    /\ session_token' = NONE
    /\ authenticated_user' = NONE
    /\ auth_history' = [token |-> NONE, cleared |-> TRUE]
    /\ UNCHANGED <<kind, user_id, secret_key, default_headers, has_arrow, http>>

\* SnelDBClient.close(): transport.close()
SessionClose ==
    /\ kind = "tcp"
    /\ tcp.pc = "idle"
    /\ last = NoOp
    /\ tcp' = close(tcp)
    /\ last' = Op("close", "", Raise("none"), Did(<<>>, Return(<<>>)))
    /\ UNCHANGED <<kind, user_id, secret_key, session_token, authenticated_user,
                   default_headers, has_arrow, auth_history, http>>

\* the caller takes the result or the exception
SessionResume ==
    /\ last.op \notin {"idle", "pending"}
    /\ Resume

NextSession ==
    \/ SessionConnectFails \/ SessionWriteFails \/ SessionExecute
    \/ TcpReadLine \/ TcpReadEof \/ TcpReadTimeout \/ TcpReadError
    \/ TcpDrainNotReady \/ TcpDrainEof
    \/ Deliver \/ PeerCloses \/ PeerResets
    \/ SessionAuthReturn \/ SessionReturn \/ SessionClear \/ SessionClose
    \/ SessionResume

SpecSession == SessionInit /\ [][NextSession]_vars

\* ----------------------------------------------- specification SpecSigning
\* AuthManager.compute_signature on its own: two calls, each on an
\* AuthManager with its own secret, side by side.
SigningSecrets == {NONE, Some(""), Some("k"), Some("k2"), Some("k ")}
SigningMessages == {"", "a", " a \n", "a b", "b", "\tb"}

SigningInit ==
    /\ kind = "tcp"
    /\ user_id = NONE
    /\ secret_key = NONE
    /\ session_token = NONE
    /\ authenticated_user = NONE
    /\ default_headers = NoHeaders
    /\ has_arrow = FALSE
    /\ auth_history = [token |-> NONE, cleared |-> FALSE]
    /\ last = NoOp
    /\ tcp = TcpInit
    /\ http = HttpInit(TRUE)

\* one call of compute_signature and what it returned or raised
Signing(secret, message) ==
    [secret |-> secret, message |-> message, out |-> compute_signature(secret, message)]

SignTwice ==
    \E s1 \in SigningSecrets, s2 \in SigningSecrets,
       m1 \in SigningMessages, m2 \in SigningMessages :
        /\ last = NoOp
        /\ last' = [op |-> "sign", one |-> Signing(s1, m1), other |-> Signing(s2, m2)]
        /\ UNCHANGED <<kind, user_id, secret_key, session_token, authenticated_user,
                       default_headers, has_arrow, auth_history, tcp, http>>

SigningResume ==
    /\ last # NoOp
    /\ last' = NoOp
    /\ UNCHANGED <<kind, user_id, secret_key, session_token, authenticated_user,
                   default_headers, has_arrow, auth_history, tcp, http>>

NextSigning == SignTwice \/ SigningResume

SpecSigning == SigningInit /\ [][NextSigning]_vars

\* ================================================================ claims
\* the transport was called once in the operation that just ended and
\* returned a response (it did not raise)
Responded == last.op # "idle" /\ Len(last.sent) = 1 /\ last.behaviour.k = "return"
Executed == last.op = "execute" /\ Responded
Response == last.behaviour.val
KnownStatuses == {200} \cup ErrorStatuses

\* the error kind the documentation gives for a failure status
DocumentedError(status) ==
    CASE status \in {400, 405} -> "CommandError"
      [] status = 401 -> "AuthenticationError"
      [] status = 403 -> "AuthorizationError"
      [] status = 404 -> "NotFoundError"
      [] status \in {500, 503} -> "ServerError"

C2_Original_OkNeverRaises ==
    (Executed /\ Response.status = 200) => last.outcome.k = "return"

DecodeErrors == {"ParseError", "JSONDecodeError", "AttributeError"}

\* what decoding the body of the response gives on its own
Decoded == parse_and_normalize_response(Response, has_arrow)

\* C2 (amended): for every response whose status is 200, execute returns
\* the list of records decoded from the body (possibly empty), and raises
\* only when decoding the body fails; it then raises the decoder's error.
C2_OkReturnsRecordsUnlessDecodingFails ==
    (Executed /\ Response.status = 200)
        => \/ /\ Decoded.k = "return"
              /\ last.outcome = Return(Decoded.val)
           \/ /\ Decoded.k = "raise"
              /\ Decoded.err \in DecodeErrors
              /\ last.outcome.k = "raise"
              /\ last.outcome.err = Decoded.err

C2_Witness ==
    /\ Executed
    /\ Response.status = 200
    /\ Response.body = ""
    /\ last.outcome = Return(<<>>)

\* C3: for every response whose status is none of 200, 400, 401, 403, 404,
\* 405, 500, 503, execute raises a ConnectionError that carries the raw
\* status, and execute_safe returns ok = false with that ConnectionError.
C3_UnexpectedStatusIsConnectionError ==
    /\ (Executed /\ Response.status \notin KnownStatuses)
           => /\ last.outcome.k = "raise"
              /\ last.outcome.err = "ConnectionError"
              /\ Contains(last.outcome.msg, IntToStr(Response.status))
    /\ (last.op = "execute_safe" /\ Responded /\ Response.status \notin KnownStatuses)
           => /\ last.outcome.k = "return"
              /\ ~last.outcome.val.ok
              /\ last.outcome.val.error # NONE
              /\ last.outcome.val.error[1].err = "ConnectionError"
              /\ Contains(last.outcome.val.error[1].msg, IntToStr(Response.status))

\* what _execute_internal and execute do for the inputs of the last call
\* (neither changes the state, so they are evaluated in the state it left)
Internal == _execute_internal(last.command, last.behaviour).outcome
Raised == execute(last.command, last.behaviour).outcome

\* C4: execute_safe never raises; it returns ok = true with the record list
\* exactly when execute returns that list, and otherwise ok = false with the
\* very error execute raises, which is the error the execution raised.
C4_ExecuteSafeMirrorsExecute ==
    last.op = "execute_safe"
        => /\ last.outcome.k = "return"
           /\ last.outcome.val.ok <=> Raised.k = "return"
           /\ last.outcome.val.ok <=> Internal.k = "return"
           /\ last.outcome.val.ok
                  => /\ last.outcome.val.data = Some(Internal.val)
                     /\ last.outcome.val.error = NONE
                     /\ Raised = Return(Internal.val)
           /\ ~last.outcome.val.ok
                  => /\ last.outcome.val.data = NONE
                     /\ last.outcome.val.error
                            = Some([err |-> Internal.err, msg |-> Internal.msg])
                     /\ Raised = Internal

C4_Witness ==
    /\ last.op = "execute_safe"
    /\ Responded
    /\ Response.status = 500
    /\ ~last.outcome.val.ok
    /\ last.outcome.val.error = Some([err |-> "ServerError", msg |-> "boom"])

\* a command was handed to the TCP-kind transport by execute or execute_safe
SentOnTcp == last.op \in {"execute", "execute_safe"} /\ kind = "tcp" /\ Len(last.sent) = 1

\* C5: after authenticate succeeded with token t, every TCP command up to
\* the next clear() is the trimmed command followed by " TOKEN t" and holds
\* no signature; after clear() commands are signed again, without TOKEN.
C5_TokenUntilClear ==
    /\ (SentOnTcp /\ auth_history.token # NONE)
           => /\ last.sent[1].command
                      = Strip(last.command) \o " TOKEN " \o auth_history.token[1]
              /\ ~Contains(last.sent[1].command, "hmac[")
    /\ (SentOnTcp /\ auth_history.cleared /\ auth_history.token = NONE)
           => /\ last.sent[1].command
                      = user_id[1] \o ":"
                        \o HmacSha256Hex(secret_key[1], Strip(last.command))
                        \o ":" \o Strip(last.command)
              /\ ~Contains(last.sent[1].command, " TOKEN ")

C5_Witness ==
    /\ SentOnTcp
    /\ auth_history.token = Some("abc123")
    /\ last.command = " QUERY orders \n"
    /\ last.sent[1].command = "QUERY orders TOKEN abc123"

\* the formatted command the precedence of the claim gives; `unsigned` is
\* what rule (4) yields
ByPrecedence(command, unsigned) ==
    IF kind # "tcp" THEN command
    ELSE IF Truthy(last.pre_token)
        THEN Strip(command) \o " TOKEN " \o last.pre_token[1]
    ELSE IF Truthy(last.pre_user)
        THEN HmacSha256Hex(secret_key[1], Strip(command)) \o ":" \o Strip(command)
    ELSE IF Truthy(user_id) /\ Truthy(secret_key)
        THEN user_id[1] \o ":" \o HmacSha256Hex(secret_key[1], Strip(command))
             \o ":" \o Strip(command)
    ELSE unsigned

\* C6 (as claimed): token, else remembered user, else configured
\* credentials, else the command passes through unmodified; an HTTP-kind
\* transport gets the command unchanged.
C6_Original_PassThroughUnmodified ==
    (last.op \in {"execute", "execute_safe"} /\ Len(last.sent) = 1)
        => last.sent[1].command = ByPrecedence(last.command, last.command)

\* C6 (amended): the same precedence, but rule (4) yields the trimmed
\* command (surrounding whitespace removed, nothing added).
C6_PrecedenceWithTrimmedFallback ==
    (last.op \in {"execute", "execute_safe"} /\ Len(last.sent) = 1)
        => last.sent[1].command = ByPrecedence(last.command, Strip(last.command))

C6_Witness ==
    /\ SentOnTcp
    /\ ~Truthy(secret_key)
    /\ last.command = " QUERY orders \n"
    /\ last.sent[1].command = "QUERY orders"

\* the text after the first "OK TOKEN " up to the next whitespace ("" when
\* the marker is absent or whitespace follows it at once)
TokenText(body) ==
    IF ~Contains(body, "OK TOKEN ") THEN ""
    ELSE Head(Split(Head(Split(Head(Split(
             Slice(body, Find(body, "OK TOKEN ") + 9, Len(body)) \o " ",
             " ")) \o "\n", "\n")) \o "\t", "\t"))

\* C7: authenticate with both credentials on a TCP-kind transport sends
\* exactly one command "AUTH <user_id>:<signature of user_id>"; a non-200
\* status raises AuthenticationError; a 200 without a recognizable token
\* raises ConnectionError; otherwise the token is returned and cached with
\* the user id.  Both failures leave the session fields as they were.
C7_AuthenticateClassifiesEveryResponse ==
    (last.op = "authenticate" /\ Responded)
        => /\ last.sent = <<Sent("AUTH " \o user_id[1] \o ":"
                                 \o HmacSha256Hex(secret_key[1], user_id[1]), NONE)>>
           /\ Response.status # 200
                  => /\ last.outcome.k = "raise"
                     /\ last.outcome.err = "AuthenticationError"
                     /\ session_token = last.pre_token
                     /\ authenticated_user = last.pre_user
           /\ (Response.status = 200 /\ TokenText(Response.body) = "")
                  => /\ last.outcome.k = "raise"
                     /\ last.outcome.err = "ConnectionError"
                     /\ session_token = last.pre_token
                     /\ authenticated_user = last.pre_user
           /\ (Response.status = 200 /\ TokenText(Response.body) # "")
                  => /\ last.outcome = Return(TokenText(Response.body))
                     /\ session_token = Some(TokenText(Response.body))
                     /\ authenticated_user = user_id

\* the lines of the connection that no execute has read yet
Unread == tcp.wire \o tcp.sockbuf \o tcp.rdbuf

\* C8: a TCP execute that returns leaves nothing of its reply unread, for
\* every timing of the server's lines: every line an execute reads belongs
\* to the reply to its own command, and when execute k has returned no line
\* of the reply to command k is still to be read.
C8_RepliesNeverCrossExecutes ==
    kind = "tcp"
        => /\ tcp.origins \subseteq {tcp.executes}
           /\ (tcp.pc = "idle" /\ tcp.result.k = "return")
                  => \A i \in 1..Len(Unread) : Unread[i].reply_to # tcp.executes

\* C9: every I/O fault during a transport execute reaches the caller as a
\* ConnectionError: on TCP a connect failure, a write failure, a read
\* timeout or a read error in the receive loop or in the drain; on HTTP a
\* request timeout or a connection failure.
C9_EveryFaultIsConnectionError ==
    /\ (kind = "tcp" /\ tcp.result.k = "raise")
           => tcp.result.err = "ConnectionError"
    /\ (kind = "http" /\ http.post.k = "raise"
            /\ http.post.err \in {"TimeoutException", "RequestError"})
           => /\ http.result.k = "raise"
              /\ http.result.err = "ConnectionError"

\* C10: when a TCP execute has ended with an I/O error, a read timeout
\* included, the socket and the reader are both released, and the next
\* execute does not run on the connection on which the error occurred.
C10_ErrorLeavesDisconnected ==
    kind = "tcp"
        => /\ (tcp.pc = "idle" /\ tcp.result.k = "raise")
                  => tcp._socket = 0 /\ tcp._reader = 0
           /\ (tcp.pc # "idle" /\ tcp.failed_on # 0)
                  => tcp._socket # tcp.failed_on

\* the command with a newline added unless it already ends with one
NewlineTerminated(command) ==
    IF Len(command) > 0 /\ Char(command, Len(command)) = "\n" THEN command
    ELSE command \o "\n"

\* C11: when connecting or writing the command fails in a TCP execute, the
\* socket and the reader are both released, a ConnectionError is raised and
\* no line was read in that execute; what an execute hands to the socket is
\* the command terminated by a newline, added only if it did not end with one.
C11_ConnectOrWriteFailureResets ==
    kind = "tcp"
        => /\ (tcp.pc = "idle" /\ tcp.fault \in {"connect", "write"})
                  => /\ tcp._socket = 0 /\ tcp._reader = 0
                     /\ tcp.result.k = "raise"
                     /\ tcp.result.err = "ConnectionError"
                     /\ tcp.iterations = 0 /\ tcp.lines = <<>> /\ tcp.origins = {}
           /\ tcp.fault = "connect" => tcp.payload = NONE
           /\ tcp.payload # NONE
                  => tcp.payload = Some(NewlineTerminated(tcp.command[1]))

C11_Witness ==
    /\ kind = "tcp"
    /\ tcp.fault = "write"
    /\ tcp.command = Some("PING")
    /\ tcp.payload = Some("PING\n")
    /\ tcp.result.k = "raise"
    /\ tcp._socket = 0

\* the last execute returned and no close() followed it
ReturnedAndKept == tcp.pc = "idle" /\ tcp.result.k = "return" /\ ~tcp.closed

\* C12: a TCP transport holds at most one connection at any time: none
\* before the first execute; between operations the socket and the reader
\* are both set or both absent; after an execute that returned the
\* connection is kept, and an execute that follows it writes on that same
\* connection without connecting again.
C12_AtMostOneConnection ==
    /\ [](kind = "tcp"
            => /\ Cardinality(tcp.open) <= 1
               /\ tcp.executes = 0
                      => tcp.connections = 0 /\ tcp.open = {} /\ tcp._socket = 0
               /\ tcp.pc = "idle" => (tcp._socket = 0 <=> tcp._reader = 0)
               /\ ReturnedAndKept => Connected(tcp) /\ tcp.open = {tcp._socket})
    /\ [][(/\ kind = "tcp"
           /\ ReturnedAndKept
           /\ tcp'.executes = tcp.executes + 1
           /\ tcp'.fault = "none")
              => /\ tcp'._socket = tcp._socket
                 /\ tcp'._reader = tcp._reader
                 /\ tcp'.connections = tcp.connections
                 /\ tcp'.connects = 0]_vars

C12_Witness ==
    /\ kind = "tcp"
    /\ tcp.executes = 3
    /\ tcp.connections = 1
    /\ tcp.connects = 0
    /\ tcp.pc = "idle"
    /\ tcp.result.k = "return"
    /\ tcp._socket = 1 /\ tcp._reader = 1

\* C13: close() is idempotent on both transports.  On TCP the transport is
\* disconnected after close(), a further close() changes nothing, and an
\* execute after close() opens a new connection; on HTTP a close() of a
\* transport whose client is already closed, or is not its own, changes
\* nothing.
C13_CloseIsIdempotent ==
    /\ [](kind = "tcp" /\ tcp.closed
            => /\ tcp._socket = 0 /\ tcp._reader = 0
               /\ tcp.open = {}
               /\ tcp.pc = "idle")
    /\ [][(kind = "tcp" /\ tcp.closed /\ tcp'.closed) => tcp' = tcp]_vars
    /\ [][(/\ kind = "tcp"
           /\ tcp.closed
           /\ tcp'.executes = tcp.executes + 1
           /\ tcp'.fault = "none")
              => /\ tcp'.connects = 1
                 /\ tcp'.connections = tcp.connections + 1
                 /\ tcp'._socket = tcp'.connections
                 /\ tcp'._reader = tcp'.connections
                 /\ tcp'.open = {tcp'.connections}]_vars
    /\ [][(/\ kind = "http"
           /\ http.client_closed \/ ~http._owns_client
           /\ http'.request = http.request
           /\ http'.result = http.result)
              => /\ http'.client_closed = http.client_closed
                 /\ http'._owns_client = http._owns_client
                 /\ http'.post = http.post]_vars

C13_Witness ==
    /\ kind = "tcp"
    /\ tcp.closed
    /\ tcp.result.k = "return"
    /\ tcp.connections = 1
    /\ tcp._socket = 0 /\ tcp._reader = 0

\* C14: a TCP execute always ends: against a server that keeps sending
\* lines none of which is terminal and never closes, every line read, blank
\* ones included, advances the loop counter, the loop is never stuck while
\* it runs, it stops when it has read 1000 lines, and execute then returns
\* the non-blank lines collected so far.
C14_ReceiveLoopStopsAtCeiling ==
    /\ [](/\ tcp.iterations <= ReadCeiling
          /\ tcp.pc = "reading" => tcp.iterations < ReadCeiling
          /\ (tcp.pc = "idle" /\ tcp.executes > 0)
                 => /\ tcp.iterations = ReadCeiling
                    /\ tcp.result.k = "return"
                    /\ tcp.result.val.status = 200
                    /\ tcp.result.val.body = Join(tcp.lines, "\n")
                    /\ Len(tcp.lines) = ReadCeiling \div 2
                    /\ \A i \in 1..Len(tcp.lines) : tcp.lines[i] = "row")
    /\ [](tcp.pc = "reading"
             => \/ CanRead(tcp)
                \/ tcp.wire # <<>>
                \/ tcp.peer = "open" /\ tcp.sockbuf = <<>> /\ tcp.rdbuf = <<>>)
    /\ [][TcpReadLine => tcp'.iterations = tcp.iterations + 1]_vars

C14_Witness ==
    /\ tcp.pc = "idle"
    /\ tcp.iterations = 1000
    /\ tcp.result.k = "return"
    /\ Len(tcp.lines) = 500

\* C15: nothing is retried.  One execute or execute_safe of the client
\* calls transport.execute at most once, with the command it formatted, and
\* the one TCP execute it runs makes at most one connection attempt and at
\* most one send, whether it returns or raises; a failed connect is followed
\* by no send and a failed send by no second connection attempt.
C15_NothingIsRetried ==
    /\ [](/\ tcp.connects <= 1
          /\ tcp.sends <= 1
          /\ tcp.fault = "connect" => tcp.connects = 1 /\ tcp.sends = 0
          /\ tcp.fault = "write" => tcp.connects = 0 /\ tcp.sends = 1
          /\ last.op \in {"execute", "execute_safe"}
                 => /\ Len(last.sent) <= 1
                    /\ \A i \in 1..Len(last.sent) :
                           Some(last.sent[i].command) = tcp.command)
    /\ [][StackReturn => tcp.executes = last.calls + 1]_vars

C15_Witness ==
    /\ last.op = "execute"
    /\ last.outcome.k = "raise"
    /\ last.outcome.err = "ConnectionError"
    /\ Len(last.sent) = 1
    /\ tcp.fault = "connect"
    /\ tcp.connects = 1
    /\ tcp._socket = 0

\* the frames up to and without the first end frame
RECURSIVE BeforeEnd(_)
BeforeEnd(frames) ==
    IF frames = <<>> \/ Head(frames).type = "end" THEN <<>>
    ELSE <<Head(frames)>> \o BeforeEnd(Tail(frames))

\* the first n values of a row keyed by the column names in their order,
\* values past the last column by col_<index>
RECURSIVE Keyed(_, _, _)
Keyed(row, names, n) ==
    IF n = 0 THEN <<>>
    ELSE DictSet(Keyed(row, names, n - 1),
                 IF n <= Len(names) THEN names[n] ELSE "col_" \o IntToStr(n - 1),
                 row[n])

\* the record of one row array; schema is NONE before any schema frame
RowAsRecord(row, schema, wrap_under_empty) ==
    IF schema = NONE \/ (wrap_under_empty /\ schema[1] = <<>>)
        THEN PyDict(<<<<"values", PyList(row)>>>>)
    ELSE PyDict(Keyed(row, schema[1], Len(row)))

\* the records the frames stand for, in order
RECURSIVE FrameRecords(_, _, _)
FrameRecords(frames, schema, wrap_under_empty) ==
    IF frames = <<>> THEN <<>>
    ELSE IF Head(frames).type = "schema"
        THEN FrameRecords(Tail(frames), Some(Head(frames).columns), wrap_under_empty)
    ELSE IF Head(frames).object # NONE
        THEN <<Head(frames).object[1]>> \o FrameRecords(Tail(frames), schema, wrap_under_empty)
    ELSE [i \in 1..Len(Head(frames).rows) |->
             RowAsRecord(Head(frames).rows[i], schema, wrap_under_empty)]
         \o FrameRecords(Tail(frames), schema, wrap_under_empty)

\* every line before the first end frame is a frame
FramesUntilEnd(frames) ==
    \A i \in 1..Len(BeforeEnd(frames)) : BeforeEnd(frames)[i].type # "malformed"

\* C16 as stated: the records are the rows before the first end frame, a
\* row array keyed by the columns of the most recently seen schema frame and
\* wrapped as {values: row} only when no schema frame was seen.
C16_Original_KeyedBySchemaSeen ==
    (last.op = "frames" /\ FramesUntilEnd(last.frames))
        => last.out = Return(FrameRecords(BeforeEnd(last.frames), NONE, FALSE))

\* C16: the records are, in order, the rows of the batch and row frames
\* before the first end frame; a row array is keyed positionally by the
\* columns of the most recently seen schema frame (values past the last
\* column by col_<index>) and wrapped as {values: row} when no schema frame
\* was seen or the most recent one lists no columns; an object row passes
\* through; lines after the first end frame have no effect.
C16_FramesDecodeUpToEnd ==
    (last.op = "frames" /\ FramesUntilEnd(last.frames))
        => last.out = Return(FrameRecords(BeforeEnd(last.frames), NONE, TRUE))

C16_Witness ==
    /\ last.op = "frames"
    /\ Len(last.frames) = 3
    /\ last.frames[1].columns = <<"a", "b">>
    /\ last.frames[2].type = "end"
    /\ last.frames[3].type = "malformed"
    /\ last.out = Return(<<>>)

\* C17: every error raised while a response body is normalized is a
\* ParseError, whatever the body: malformed JSON between brackets, a
\* malformed or non-object line among streaming frames, an unreadable binary
\* batch, a binary batch without the binary-decoding capability.
C17_DecodeErrorsAreParseErrors ==
    /\ (last.op = "normalize" /\ last.out.k = "raise") => last.out.err = "ParseError"
    /\ (last.op = "frames" /\ last.out.k = "raise") => last.out.err = "ParseError"

\* the non-blank trimmed lines of a body without a leading status line
DataLines(body) == drop_status_prefix(NonBlankStripped(SplitLines(Strip(body))))

\* the first rule of the detection order that a response satisfies
FirstRule(response) ==
    IF _looks_like_arrow(Lower(HeaderGet(response.headers, "content-type")), response.body)
        THEN "binary"
    ELSE IF /\ DataLines(response.body) # <<>>
            /\ StartsWith(DataLines(response.body)[1], "{")
            /\ Contains(DataLines(response.body)[1], "\"type\"")
        THEN "frames"
    ELSE IF looks_like_json_object(response.body) \/ looks_like_json_array(response.body)
        THEN "json"
    ELSE IF DataLines(response.body) # <<>> /\ Contains(DataLines(response.body)[1], "|")
        THEN "pipe"
    ELSE "raw"

\* what the decoder of one rule makes of a response, on its own
DecodedBy(rule, response) ==
    CASE rule = "binary" -> parse_arrow_to_records(response.body, has_arrow)
      [] rule = "frames" -> parse_streaming_json_response(DataLines(response.body))
      [] rule = "json" -> JsonRecords(json_loads(Strip(response.body)), Raise("TypeError"))
      [] rule = "pipe" -> Return(parse_pipe_delimited(DataLines(response.body)))
      [] rule = "raw" -> Return([i \in 1..Len(DataLines(response.body)) |->
                                    PyDict(<<<<"raw", PyStr(DataLines(response.body)[i])>>>>)])

\* C18: format detection is first-match-wins in the order binary, frames,
\* JSON object or array, pipe table, raw lines: what the normalizer returns
\* or raises is what the decoder of the first rule the body satisfies makes
\* of it, so a body that satisfies an earlier rule is never decoded by a
\* later one; an object with a type field on the first data line is decoded
\* as frames, a table that starts with the binary magic as a binary batch,
\* and JSON that contains a pipe as JSON.
C18_FirstMatchWins ==
    last.op = "normalize"
        => /\ last.out = DecodedBy(FirstRule(last.response), last.response)
           /\ (last.response.body = BodyTypedObject /\ last.response.headers = NoHeaders)
                  => FirstRule(last.response) = "frames" /\ last.out = Return(<<>>)
           /\ (last.response.body = BodyMagicTable)
                  => FirstRule(last.response) = "binary" /\ last.out = Raise("ParseError")
           /\ (last.response.body = BodyPipeInJson /\ last.response.headers = NoHeaders)
                  => FirstRule(last.response) = "json" /\ last.out.k = "return"

C18_Witness ==
    /\ last.op = "normalize"
    /\ last.response.body = BodyTypedObject
    /\ last.response.headers = NoHeaders
    /\ looks_like_json_object(last.response.body)
    /\ last.out = Return(<<>>)

\* the tokens of a line, each trimmed
Trimmed(tokens) == [i \in 1..Len(tokens) |-> Strip(tokens[i])]

NotBlank(tokens) == Strip(Join(tokens, "|")) # ""

\* the lines after the header that are not blank
FollowingLines(table) == SelectSeq(table.rows, NotBlank)

\* a token made of letters, digits and underscores only
IsWordToken(token) ==
    /\ token # ""
    /\ \A i \in 1..Len(token) : Char(token, i) \in Letters \cup Digits \cup {"_"}

AllWordTokens(tokens) == \A i \in 1..Len(tokens) : IsWordToken(Strip(tokens[i]))

\* the fallback record of a line: the raw line and its split parts
FallbackRecord(tokens) ==
    PyDict(<<<<"raw", PyStr(Strip(Join(tokens, "|")))>>,
             <<"parts", PyList([i \in 1..Len(tokens) |-> PyStr(Strip(tokens[i]))])>>>>)

\* the record maps each lower-cased header to the trimmed value at the last
\* place that carries this header, and has no other key
MapsLastOfEachHeader(record, header, tokens) ==
    /\ record.t = "dict"
    /\ {record.items[i][1] : i \in 1..Len(record.items)}
           = {Lower(Strip(header[j])) : j \in 1..Len(header)}
    /\ Len(record.items) = Cardinality({Lower(Strip(header[j])) : j \in 1..Len(header)})
    /\ \A j \in 1..Len(header) :
           (\A k \in (j + 1)..Len(header) : Lower(Strip(header[k])) # Lower(Strip(header[j])))
               => DictGet(record, Lower(Strip(header[j]))) = PyStr(Strip(tokens[j]))

\* the header the decoder accepts: every token has a letter or digit and
\* is made of letters, digits and underscores
AcceptedHeader(tokens) ==
    \A i \in 1..Len(tokens) :
        /\ IsWordToken(Strip(tokens[i]))
        /\ \E c \in 1..Len(Strip(tokens[i])) : Char(Strip(tokens[i]), c) # "_"

\* C19: a pipe table, with or without a status line before it.  Under a
\* header whose tokens are alphanumeric/underscore (each with a letter or
\* digit), every following non-blank line gives one record in line order:
\* with as many values as headers, the record keyed by the lower-cased
\* headers, each mapped to the trimmed value at its place (the last place,
\* where two headers are equal); otherwise the fallback record of the line
\* and its split parts.  Under any other first line every line, the first
\* included, gives a fallback record.  The header line gives no record.
C19_PipeTableRecords ==
    last.op = "table"
        => /\ last.out.k = "return"
           /\ AcceptedHeader(last.table.header)
                  => /\ Len(last.out.val) = Len(FollowingLines(last.table))
                     /\ \A i \in 1..Len(FollowingLines(last.table)) :
                            IF Len(FollowingLines(last.table)[i]) = Len(last.table.header)
                                THEN MapsLastOfEachHeader(last.out.val[i], last.table.header,
                                                          FollowingLines(last.table)[i])
                            ELSE last.out.val[i] = FallbackRecord(FollowingLines(last.table)[i])
           /\ ~AcceptedHeader(last.table.header)
                  => last.out.val
                         = [i \in 1..(1 + Len(FollowingLines(last.table))) |->
                               FallbackRecord((<<last.table.header>>
                                               \o FollowingLines(last.table))[i])]

\* the JSON value a body is, when it is well-formed JSON
BodyJson(response) == json_loads(Strip(response.body))

\* C20: a body that is a well-formed JSON array yields its elements as the
\* records, in order and with their types; a body that is a single
\* well-formed JSON object yields the one-element list holding that object.
\* The bodies the detection order gives to an earlier rule are left out: a
\* binary body, and an object that has a type field.
C20_JsonBodiesYieldTheirValue ==
    (/\ last.op = "normalize"
     /\ FirstRule(last.response) # "binary"
     /\ BodyJson(last.response).k = "return")
        => /\ BodyJson(last.response).val.t = "list"
                  => last.out = Return(BodyJson(last.response).val.elems)
           /\ (/\ BodyJson(last.response).val.t = "dict"
               /\ ~DictHas(BodyJson(last.response).val, "type"))
                  => last.out = Return(<<BodyJson(last.response).val>>)

AuthHeaderNames == {"X-Auth-User", "X-Auth-Signature"}

\* the headers an HTTP transport is to receive for a command; an empty
\* user id or secret counts as none configured
DecoratedAs(headers, command) ==
    IF Truthy(user_id) /\ Truthy(secret_key)
        THEN /\ DOMAIN headers = DOMAIN default_headers \cup AuthHeaderNames
             /\ \A h \in DOMAIN default_headers \ AuthHeaderNames :
                    headers[h] = default_headers[h]
             /\ headers["X-Auth-User"] = user_id[1]
             /\ headers["X-Auth-Signature"] = compute_signature(secret_key, command).val
    ELSE headers = default_headers

C22_Original_AnyChangeChangesSignature ==
    (last.op = "sign" /\ last.one.out.k = "return" /\ last.other.out.k = "return")
        => (last.one.out = last.other.out
                <=> (last.one.secret = last.other.secret
                     /\ last.one.message = last.other.message))

\* C22: signing is deterministic, and sensitive to the secret and to the
\* message without its leading and trailing whitespace: two calls give the
\* same signature exactly when their secrets are equal and their trimmed
\* messages are equal; a call without a secret raises AuthenticationError
\* whatever the message.
C22_SignatureOfSecretAndTrimmedMessage ==
    last.op = "sign"
        => /\ (last.one.out.k = "return" /\ last.other.out.k = "return")
                  => (last.one.out = last.other.out
                          <=> (last.one.secret = last.other.secret
                               /\ Strip(last.one.message) = Strip(last.other.message)))
           /\ (last.one.secret = last.other.secret /\ last.one.message = last.other.message)
                  => last.one.out = last.other.out
           /\ last.one.out.k = "raise"
                  <=> (last.one.secret = NONE \/ last.one.secret = Some(""))
           /\ last.one.out.k = "raise" => last.one.out = Raise("AuthenticationError")

C22_Witness ==
    /\ last.op = "sign"
    /\ last.one.secret = Some("k") /\ last.other.secret = Some("k")
    /\ last.one.message = "a" /\ last.other.message = " a \n"
    /\ last.one.out.k = "return"
    /\ last.one.out = last.other.out

\* C23: HttpTransport.close closes the HTTP client exactly when the
\* transport created it: a client supplied by the caller is never closed,
\* whatever executes and closes came before, and a client the transport
\* created is closed by the first close and stays closed.
C23_OnlyOwnedClientIsClosed ==
    /\ [](kind = "http"
            => /\ ~http._owns_client => ~http.client_closed
               /\ http._owns_client => (http.client_closed <=> http.close_called))
    /\ [][http'._owns_client = http._owns_client]_vars

C23_Witness ==
    /\ kind = "http"
    /\ ~http._owns_client
    /\ http.close_called
    /\ http.result.k = "return"
    /\ ~http.client_closed

\* the message field of a body that parses as a JSON object having one
MessageField(body) ==
    LET parsed == json_loads(body)
    IN IF parsed.k = "return" /\ parsed.val.t = "dict" /\ DictHas(parsed.val, "message")
           THEN Some(PyToStr(DictGet(parsed.val, "message")))
       ELSE NONE

\* C24: extract_error_message never raises; it returns the placeholder
\* "Error occurred" for an empty or whitespace-only body, the message field
\* of a body that parses as a JSON object having one, and the trimmed raw
\* body otherwise.
C24_MessageExtractionNeverRaises ==
    last.op = "message"
        => /\ last.out.k = "return"
           /\ Strip(last.body) = "" => last.out.val = "Error occurred"
           /\ MessageField(last.body) # NONE
                  => last.out.val = MessageField(last.body)[1]
           /\ (Strip(last.body) # "" /\ MessageField(last.body) = NONE)
                  => last.out.val = Strip(last.body)

\* a streaming-frame line whose discriminator is end
IsEndFrame(line) ==
    LET parsed == json_loads(line)
    IN /\ parsed.k = "return"
       /\ parsed.val.t = "dict"
       /\ DictHas(parsed.val, "type")
       /\ DictGet(parsed.val, "type") = PyStr("end")

\* a turn of the receive loop in which a line is read, and that line
\* without its line terminator
ReadsLine == TcpReading /\ CanRead(tcp) /\ tcp'.iterations = tcp.iterations + 1
LineRead == RStripSet(NextLine(tcp).text, {"\r", "\n"})

\* C25: the receive loop ends on a line exactly when the line is an end
\* frame, an error line or a success status line; after an end frame or an
\* error line the execute returns at once, and once it has returned it reads
\* no further line.
C25_LoopEndsExactlyOnTerminalLines ==
    /\ [][ReadsLine
            => /\ tcp'.pc # "reading"
                      <=> \/ IsEndFrame(LineRead)
                          \/ _is_error_line(LineRead)
                          \/ _looks_like_status_line(LineRead)
               /\ (IsEndFrame(LineRead) \/ _is_error_line(LineRead))
                      => tcp'.pc = "idle" /\ tcp'.result.k = "return"]_vars
    /\ [][(tcp.pc = "idle" /\ tcp.executes > 0)
            => /\ tcp'.lines = tcp.lines
               /\ tcp'.iterations = tcp.iterations
               /\ tcp'.rdbuf = tcp.rdbuf]_vars

\* a line that begins with the ERROR: marker, or with a failure status the
\* client maps to an error kind followed by whitespace
IsFailureLine(line) ==
    \/ StartsWith(line, "ERROR:")
    \/ /\ Len(line) >= 4
       /\ Slice(line, 1, 3) \in {IntToStr(status) : status \in ErrorStatuses}
       /\ Char(line, 4) \in Whitespace

\* C26: the receive loop stops at once on every line that begins with
\* ERROR: or with one of 400, 401, 403, 404, 405, 500, 503 followed by
\* whitespace: the execute returns with that line as its last one, without
\* reading further.
C26_FailureLinesEndTheLoop ==
    [][(ReadsLine /\ IsFailureLine(LineRead))
            => /\ tcp'.pc = "idle"
               /\ tcp'.result.k = "return"
               /\ tcp'.lines = Append(tcp.lines, LineRead)]_vars

\* an execute has returned a response; the first line it collected ("" if
\* it collected none)
TcpReturned == kind = "tcp" /\ tcp.pc = "idle" /\ tcp.result.k = "return"
FirstCollected == IF tcp.lines = <<>> THEN "" ELSE tcp.lines[1]

\* the line begins with a number of exactly three digits
LeadingThreeDigitNumber(line) ==
    ThreeDigits(line) /\ ~(Len(line) >= 4 /\ IsDigit(Char(line, 4)))

\* C27 as stated, a leading 3-digit number being a number of three digits:
\* the status is 400 for an ERROR: prefix, the leading 3-digit number if
\* there is one, and 200 otherwise.
C27_Original_ThreeDigitNumber ==
    TcpReturned
        => tcp.result.val.status
               = IF StartsWith(FirstCollected, "ERROR:") THEN 400
                 ELSE IF LeadingThreeDigitNumber(FirstCollected)
                     THEN StrToInt(Slice(FirstCollected, 1, 3))
                 ELSE 200

\* C27: the status of a TCP response is a function of the first collected
\* line alone: 400 for an ERROR: prefix, else the number formed by its first
\* three characters when these are digits (whatever follows them), else
\* 200, also when no line was collected; the lines collected after the
\* first have no part in it.
C27_StatusOfFirstCollectedLine ==
    TcpReturned
        => /\ tcp.result.val.status
                  = IF StartsWith(FirstCollected, "ERROR:") THEN 400
                    ELSE IF Len(FirstCollected) >= 3 /\ IsDigit(Slice(FirstCollected, 1, 3))
                        THEN StrToInt(Slice(FirstCollected, 1, 3))
                    ELSE 200
           /\ StartsWith(FirstCollected, "OK") => tcp.result.val.status = 200
           /\ tcp.lines = <<>> => tcp.result.val.status = 200

C27_Witness ==
    /\ TcpReturned
    /\ tcp.lines = <<"4040 rows", "OK">>
    /\ tcp.result.val.status = 404

\* the lines of the server's reply the execute has taken from the reader,
\* in arrival order: all but those still in flight, in the socket or in the
\* reader's buffer
LinesTaken ==
    SubSeq(last.reply, 1,
           Len(last.reply) - Len(tcp.wire) - Len(tcp.sockbuf) - Len(tcp.rdbuf))

\* these lines without their line terminators, the blank ones left out
WithoutBlank(taken) ==
    SelectSeq([i \in 1..Len(taken) |-> RStripSet(taken[i], {"\r", "\n"})],
              LAMBDA line : line # "")

\* C28: when the peer has closed and nothing is left to read, the receive
\* loop ends and execute returns what it collected, with status 200 and an
\* empty body if it collected nothing; a read that times out makes execute
\* raise ConnectionError; the body of every response is the newline-joined
\* sequence of the non-blank lines taken, in arrival order, without their
\* line terminators.
C28_CloseReturnsCollectedLines ==
    /\ [][(TcpReading /\ AtEof(tcp))
            => /\ tcp'.pc = "idle"
               /\ tcp'.result.k = "return"
               /\ tcp'.lines = tcp.lines
               /\ tcp.lines = <<>>
                      => tcp'.result.val = TransportResponse(200, "", <<>>)]_vars
    /\ [](tcp.fault = "timeout"
            => tcp.result.k = "raise" /\ tcp.result.err = "ConnectionError")
    /\ [][(TcpReading /\ Blocked(tcp) /\ tcp'.pc = "idle")
            => tcp'.fault = "timeout"]_vars
    /\ [](TcpReturned
            => /\ tcp.lines = WithoutBlank(LinesTaken)
               /\ tcp.result.val.body = Join(WithoutBlank(LinesTaken), "\n"))

C28_Witness ==
    /\ TcpReturned
    /\ last.reply = <<"", "hello\r">>
    /\ tcp.peer = "closed"
    /\ tcp.iterations = 3
    /\ tcp.result.val = TransportResponse(200, "hello", <<>>)

\* C29: the drain performs a bounded number of polls and never waits in a
\* read, and when it ends it has taken every line that had arrived: it ends
\* only on a blank line or an end frame, or when no line is left in the
\* socket or in the reader's buffer (none ready, or the stream closed), or
\* at its poll ceiling.
C29_DrainTakesArrivedLines ==
    /\ [](tcp.polls <= DrainCeiling)
    /\ [][TcpDraining => tcp'.fault = "none"]_vars
    /\ [][(TcpDraining /\ tcp'.pc = "idle")
            => \/ tcp.rdbuf = <<>> /\ tcp.sockbuf = <<>>
               \/ CanRead(tcp) /\ tcp'.polls = tcp.polls + 1 /\ tcp'.rdbuf # tcp.rdbuf
                      /\ (LineRead = "" \/ IsEndFrame(LineRead))
               \/ tcp'.polls >= DrainCeiling]_vars

\* C30: once a user was authenticated and the token has been cleared, a
\* command sent over TCP is "<signature>:<trimmed command>", the signature
\* of the trimmed command, without the user id.
C30_SignatureOnlyAfterClear ==
    (SentOnTcp /\ auth_history.cleared /\ auth_history.token = NONE)
        => last.sent[1].command
               = HmacSha256Hex(secret_key[1], Strip(last.command))
                 \o ":" \o Strip(last.command)

\* the preconditions of an AUTH exchange: a TCP-kind transport, a user id
\* and a secret
MayAuthenticate == kind = "tcp" /\ Truthy(user_id) /\ Truthy(secret_key)

\* C31: authenticate on a transport that is not TCP, or without both user
\* id and secret, raises AuthenticationError, sends nothing through the
\* transport and leaves the session fields as they were; compute_signature
\* without a secret raises AuthenticationError; and while no secret is
\* configured nothing sent carries a signature.
C31_CredentialPreconditionsFailClosed ==
    /\ (last.op = "authenticate" /\ ~MayAuthenticate)
           => /\ last.outcome.k = "raise"
              /\ last.outcome.err = "AuthenticationError"
              /\ last.sent = <<>>
              /\ session_token = last.pre_token
              /\ authenticated_user = last.pre_user
    /\ (last.op = "compute_signature" /\ ~Truthy(secret_key))
           => /\ last.outcome.k = "raise"
              /\ last.outcome.err = "AuthenticationError"
    /\ (last.op # "idle" /\ ~Truthy(secret_key))
           => \A i \in 1..Len(last.sent) :
                  /\ ~Contains(last.sent[i].command, "hmac[")
                  /\ "X-Auth-Signature" \notin DOMAIN last.sent[i].headers

C31_Witness ==
    /\ last.op = "authenticate"
    /\ kind = "http"
    /\ user_id = Some("user") /\ secret_key = Some("s3cret")
    /\ last.outcome.k = "raise" /\ last.outcome.err = "AuthenticationError"
    /\ last.sent = <<>>
    /\ session_token = NONE

\* C32: between any two calls the session is wholly absent or wholly
\* present: a token is held exactly when an authenticated user is; the
\* token held is a non-empty one, namely that of the last authenticate
\* that succeeded with no clear() since, and the user is the configured
\* user id; with no such authenticate nothing is held.
C32_SessionWhollyAbsentOrPresent ==
    /\ session_token # NONE <=> authenticated_user # NONE
    /\ session_token = auth_history.token
    /\ session_token # NONE
           => /\ Truthy(session_token)
              /\ Truthy(authenticated_user)
              /\ authenticated_user = user_id
    /\ (last.op = "authenticate" /\ last.outcome.k = "raise")
           => /\ session_token = last.pre_token
              /\ authenticated_user = last.pre_user
    /\ (last.op = "authenticate" /\ last.outcome.k = "return")
           => session_token = Some(last.outcome.val)
    /\ last.op = "clear" => session_token = NONE /\ authenticated_user = NONE

C32_Witness ==
    /\ last.op = "authenticate"
    /\ last.outcome.k = "raise"
    /\ Len(last.sent) = 1
    /\ session_token = Some("t1")
    /\ authenticated_user = Some("user")

\* C33: the session fields change only in the step in which an
\* authenticate returns its token and in a clear(); every other step (an
\* execute or execute_safe returning or raising, whatever the status, a
\* failed connect, send or read, a reset by the peer, close()) leaves them
\* as they are, and an execute that starts while a token is held hands the
\* transport the command followed by " TOKEN <token>", also when that
\* execute opens a fresh connection.
C33_SessionChangesOnlyByAuthenticateAndClear ==
    /\ [][(session_token' # session_token \/ authenticated_user' # authenticated_user)
            => \/ /\ last.op = "pending" /\ last.name = "authenticate"
                  /\ last'.op = "authenticate" /\ last'.outcome.k = "return"
               \/ last = NoOp /\ last'.op = "clear"]_vars
    /\ []((last.op = "pending" /\ last.name # "authenticate" /\ session_token # NONE)
            => tcp.command = Some(last.command \o " TOKEN " \o session_token[1]))
    /\ []((last.op \in {"execute", "execute_safe"} /\ last.pre_token # NONE)
            => /\ session_token = last.pre_token
               /\ \A i \in 1..Len(last.sent) :
                      last.sent[i].command
                          = last.command \o " TOKEN " \o session_token[1])

C33_Witness ==
    /\ last.op = "pending" /\ last.name = "execute"
    /\ session_token = Some("t1")
    /\ authenticated_user = Some("user")
    /\ tcp.connections = 2
    /\ tcp.connects = 1
    /\ tcp.pc = "reading"
    /\ tcp.command = Some("PING TOKEN t1")

\* C34: when the receive loop ends on an error line, the response execute
\* returns has a status other than 200 and the client raises for it.
C34_ErrorLineGivesFailureStatus ==
    [][(ReadsLine /\ _is_error_line(LineRead))
            => /\ tcp'.result.k = "return"
               /\ tcp'.result.val.status # 200
               /\ _handle_response(tcp'.result.val, has_arrow).k = "raise"]_vars

====
